---- MODULE Spec2Model ----
(***************************************************************************)
(* ShipShell: the command algebra (src/bindings.rs), the typed environment *)
(* store (src/shell/env.rs) and the executor (src/shell/exec/).            *)
(***************************************************************************)
EXTENDS Integers, Sequences, FiniteSets, TLC

VARIABLES
    heap,       \* the Runnable nodes allocated so far (Arc<Runnable>)
    live,       \* the handles the interpreter holds
    open_fds,   \* the descriptors open in the interpreter
    last,       \* the last facade call: its operands, result and error
    env,        \* the ShellEnvironment behind SHELL_ENV
    cwd,        \* the working directory of the shell process
    shell,      \* "running", "exited" (process::exit) or "poisoned" (panic under the lock)
    last_call,  \* the last call on the store or the executor, and what it returned
    nops,       \* the number of calls made on the store and the executor
    num_pipes,  \* run_pipeline_internal: predecessors.len()
    final_stage,  \* run_pipeline_internal: the variant of the final stage
    capture,    \* run_pipeline_internal: capture_pipes.is_some()
    pc,         \* run_pipeline_internal: where the shell process is
    child_pids, \* run_pipeline_internal: the predecessors forked so far
    last_child, \* run_pipeline_internal: the final child, 0 before its fork
    procs,      \* the processes forked: running, zombie or reaped, and their wait status
    exit_order, \* the children in the order in which they terminated
    builtin_ret, \* what func(args) returned for a final builtin, -1 before the call
    pipeline_exit,  \* the exit code run_pipeline_internal returned, -1 before it returns
    wait_mode,  \* the single-command path taken: execute_command or its capture twin
    wait_pc,    \* where that path is
    wait_child, \* its child: its state and its wait status
    wait_result, \* the ShellResult it returned
    rt_value,   \* the EnvValue projected to a string and parsed back
    rt_text,    \* its to_string_repr
    rt_parsed,  \* parse_from_string of that text
    rt_pc,      \* how far the round trip is
    files,      \* the file system: each existing path and whether an execute bit is set
    run_program, \* the program name of the last Command executed
    resolved,   \* what resolve_program_path returned in its child
    hooks,      \* HOOKS: for each kind the (id, callback) pairs in Vec order
    hook_counter, \* the *_COUNTER atomics: the next id of each kind
    reg_log,    \* for each kind the ids handed out, in the order of registration
    fire_pc,    \* the firing loop: "idle", "firing", or stopped "blocked" / "panicked"
    fire_kind,  \* the kind being fired
    fire_pos,   \* the position of the loop in the Vec
    invoked,    \* the ids of the hooks the last firing has invoked, in order
    hook_call,  \* the last on / off call and what it returned
    hook_ops,   \* the number of on / off calls made
    disk,  \* the content of each file the shell or its children write
    calls, \* the __call__s made: the object, what its child did and the result
    fl_cfg,  \* the pipeline executed: predecessors, final stage, capture, what each stage writes
    fl_pc,  \* where the shell process is in run_pipeline_internal
    fl_fds,  \* the descriptor table of the shell (0) and of each stage process
    fl_proc,  \* each stage process: unborn, running, zombie or reaped
    fl_todo,  \* the bytes each stage has still to write
    fl_eof,  \* whether each stage has read end-of-file on its stdin
    fl_fill,  \* the bytes in each pipe
    fl_saved,  \* the copies of fds 0, 1, 2 the shell made before a final builtin
    fl_waited,  \* the number of predecessors waited for
    fl_at_start, \* the descriptor table each stage child had when its stage started
    rp_loop,  \* which loop runs: main.rs (no hooks) or repl.rs (hooks)
    rp_pc,  \* top of the loop, in read_line, or exited
    rp_buffer,  \* the accumulated lines of the statement being typed
    rp_continuation,  \* prompt.is_continuation
    rp_reads,  \* the number of read_line calls that have returned
    rp_log, \* what the loop has done, in order
    lk_todo,  \* the lock and fork steps the running operation still has to take
    lk_lock,  \* the environment store lock as the running thread sees it
    lk_pc,  \* idle, running, or blocked on a lock the thread already holds
    lk_fork_lock,  \* the state of the lock at the most recent fork
    lk_calls  \* operations started so far

algVars == <<heap, live, open_fds, last>>

envVars == <<env, cwd, shell, last_call, nops>>

pipeVars ==
    <<num_pipes, final_stage, capture, pc, child_pids, last_child, procs, exit_order,
      builtin_ret, pipeline_exit>>

waitVars == <<wait_mode, wait_pc, wait_child, wait_result>>

parseVars == <<rt_value, rt_text, rt_parsed, rt_pc>>

resolveVars == <<files, run_program, resolved>>

hookVars ==
    <<hooks, hook_counter, reg_log, fire_pc, fire_kind, fire_pos, invoked, hook_call,
      hook_ops>>

callVars == <<disk, calls>>

flowVars == <<fl_cfg, fl_pc, fl_fds, fl_proc, fl_todo, fl_eof, fl_fill, fl_saved, fl_waited, fl_at_start>>

replVars == <<rp_loop, rp_pc, rp_buffer, rp_continuation, rp_reads, rp_log>>

lockVars == <<lk_todo, lk_lock, lk_pc, lk_fork_lock, lk_calls>>

vars == <<algVars, envVars, pipeVars, waitVars, parseVars, resolveVars, hookVars, callVars, flowVars, replVars, lockVars>>

\* What each specification leaves alone.
exceptAlg == <<envVars, pipeVars, waitVars, parseVars, resolveVars, hookVars, callVars, flowVars, replVars, lockVars>>
exceptEnv == <<algVars, pipeVars, waitVars, parseVars, resolveVars, hookVars, callVars, flowVars, replVars, lockVars>>
exceptPipe == <<algVars, envVars, waitVars, parseVars, resolveVars, hookVars, callVars, flowVars, replVars, lockVars>>
exceptWait == <<algVars, envVars, pipeVars, parseVars, resolveVars, hookVars, callVars, flowVars, replVars, lockVars>>
exceptParse == <<algVars, envVars, pipeVars, waitVars, resolveVars, hookVars, callVars, flowVars, replVars, lockVars>>
exceptResolve == <<algVars, pipeVars, waitVars, parseVars, hookVars, callVars, flowVars, replVars, lockVars>>
exceptHooks == <<algVars, envVars, pipeVars, waitVars, parseVars, resolveVars, callVars, flowVars, replVars, lockVars>>
exceptCall == <<pipeVars, waitVars, parseVars, resolveVars, hookVars, flowVars, replVars, lockVars>>
exceptFlow == <<algVars, envVars, pipeVars, waitVars, parseVars, resolveVars, hookVars, callVars, replVars, lockVars>>
exceptRepl == <<algVars, envVars, pipeVars, waitVars, parseVars, resolveVars, hookVars, callVars, flowVars, lockVars>>
exceptLock == <<algVars, envVars, pipeVars, waitVars, parseVars, resolveVars, hookVars, callVars, flowVars, replVars>>

(***************************************************************************)
(* Bounds and input sets.                                                  *)
(***************************************************************************)
MaxObjs == 3
MaxRest == 1

ProgNames == {"ls", "cd"}
ArgLists == {<<"-l">>}
PathNames == {"out"}
FileNos == {3, 9}
InitFds == {0, 1, 2, 3}

Min(S) == CHOOSE x \in S : \A y \in S : x <= y

SeqsUpTo(S, n) == UNION {[1 .. k -> S] : k \in 0 .. n}

(***************************************************************************)
(* enum EnvValue (env.rs).                                                 *)
(***************************************************************************)
String(s) == [k |-> "String", v |-> s]
Integer(i) == [k |-> "Integer", v |-> i]
Decimal(d) == [k |-> "Decimal", v |-> d]
Bool(b) == [k |-> "Bool", v |-> b]
None == [k |-> "None"]
List(items) == [k |-> "List", v |-> items]
FilePath(p) == [k |-> "FilePath", v |-> p]

KwargSets == {[FOO |-> String("1")], [FOO |-> String("2"), BAR |-> Integer(1)]}

(***************************************************************************)
(* enum Runnable and RedirectTarget (bindings.rs).  A child is the index   *)
(* of the shared Arc it points to.                                         *)
(***************************************************************************)
Command(prog, args) == [t |-> "Command", prog |-> prog, args |-> args]
Pipeline(predecessors, final_cmd) ==
    [t |-> "Pipeline", predecessors |-> predecessors, final_cmd |-> final_cmd]
Subshell(runnable) == [t |-> "Subshell", runnable |-> runnable]
Redirect(runnable, target) == [t |-> "Redirect", runnable |-> runnable, target |-> target]
WithEnv(runnable, env_overlay) ==
    [t |-> "WithEnv", runnable |-> runnable, env_overlay |-> env_overlay]

FilePathTarget(path, append) == [t |-> "FilePath", path |-> path, append |-> append]
FileDescriptorTarget(fd) == [t |-> "FileDescriptor", fd |-> fd]

NoNode == [t |-> "none"]
Ok(node) == [err |-> "", node |-> node]
Err(msg) == [err |-> msg, node |-> NoNode]

IsAtomic(n) == n.t \in {"Command", "Subshell", "WithEnv"}

(***************************************************************************)
(* Faulty variants of __or__, used to show that the laws below depend on   *)
(* its case analysis: one wraps a Pipeline operand instead of flattening   *)
(* it, one appends the left atom after the right pipeline's stages, one    *)
(* reverses the operands of atomic | atomic, one lets a Redirect through   *)
(* on the right.                                                           *)
(***************************************************************************)
OrResultNesting(h, self, other) ==
    LET s == h[self]
        o == h[other]
    IN  IF s.t = "Redirect" \/ o.t = "Redirect"
            THEN Err("TypeError: cannot pipe a redirected command")
            ELSE Ok(Pipeline(<<self>>, other))

OrResultMisplaced(h, self, other) ==
    LET s == h[self]
        o == h[other]
    IN  CASE s.t = "Redirect" \/ o.t = "Redirect" ->
                Err("TypeError: cannot pipe a redirected command")
          [] IsAtomic(s) /\ IsAtomic(o) -> Ok(Pipeline(<<self>>, other))
          [] s.t = "Pipeline" /\ IsAtomic(o) ->
                Ok(Pipeline(Append(s.predecessors, s.final_cmd), other))
          [] IsAtomic(s) /\ o.t = "Pipeline" ->
                Ok(Pipeline(Append(o.predecessors, self), o.final_cmd))
          [] s.t = "Pipeline" /\ o.t = "Pipeline" ->
                Ok(Pipeline(Append(s.predecessors, s.final_cmd) \o o.predecessors,
                            o.final_cmd))

OrResultSwapped(h, self, other) ==
    LET s == h[self]
        o == h[other]
    IN  CASE s.t = "Redirect" \/ o.t = "Redirect" ->
                Err("TypeError: cannot pipe a redirected command")
          [] IsAtomic(s) /\ IsAtomic(o) -> Ok(Pipeline(<<other>>, self))
          [] s.t = "Pipeline" /\ IsAtomic(o) ->
                Ok(Pipeline(Append(s.predecessors, s.final_cmd), other))
          [] IsAtomic(s) /\ o.t = "Pipeline" ->
                Ok(Pipeline(<<self>> \o o.predecessors, o.final_cmd))
          [] s.t = "Pipeline" /\ o.t = "Pipeline" ->
                Ok(Pipeline(Append(s.predecessors, s.final_cmd) \o o.predecessors,
                            o.final_cmd))

OrResultRedirectRhs(h, self, other) ==
    LET s == h[self]
        o == h[other]
    IN  CASE s.t = "Redirect" -> Err("TypeError: cannot pipe from a redirected command")
          [] s.t # "Redirect" /\ IsAtomic(s) /\ o.t # "Pipeline" ->
                Ok(Pipeline(<<self>>, other))
          [] s.t = "Pipeline" /\ o.t # "Pipeline" ->
                Ok(Pipeline(Append(s.predecessors, s.final_cmd), other))
          [] IsAtomic(s) /\ o.t = "Pipeline" ->
                Ok(Pipeline(<<self>> \o o.predecessors, o.final_cmd))
          [] s.t = "Pipeline" /\ o.t = "Pipeline" ->
                Ok(Pipeline(Append(s.predecessors, s.final_cmd) \o o.predecessors,
                            o.final_cmd))

(***************************************************************************)
(* ShipRunnable::__or__: the case analysis over the two operands.          *)
(***************************************************************************)
OrResult(h, self, other) ==
    LET s == h[self]
        o == h[other]
    IN  CASE s.t = "Redirect" -> Err("TypeError: cannot pipe from a redirected command")
          [] s.t # "Redirect" /\ o.t = "Redirect" ->
                Err("TypeError: cannot pipe to a redirected command")
          [] IsAtomic(s) /\ IsAtomic(o) -> Ok(Pipeline(<<self>>, other))
          [] s.t = "Pipeline" /\ IsAtomic(o) ->
                Ok(Pipeline(Append(s.predecessors, s.final_cmd), other))
          [] IsAtomic(s) /\ o.t = "Pipeline" ->
                Ok(Pipeline(<<self>> \o o.predecessors, o.final_cmd))
          [] s.t = "Pipeline" /\ o.t = "Pipeline" ->
                Ok(Pipeline(Append(s.predecessors, s.final_cmd) \o o.predecessors,
                            o.final_cmd))

(***************************************************************************)
(* pipe(cmd1, cmd2, *cmds): a left fold of __or__; every step allocates a  *)
(* new object and the first error ends the call.                           *)
(***************************************************************************)
RECURSIVE PipeFold(_, _, _)
PipeFold(h, result, cmds) ==
    IF cmds = <<>> THEN [err |-> "", h |-> h, id |-> result]
    ELSE LET r == OrResult(h, result, Head(cmds))
         IN  IF r.err # "" THEN [err |-> r.err, h |-> h, id |-> 0]
             ELSE PipeFold(Append(h, r.node), Len(h) + 1, Tail(cmds))

(***************************************************************************)
(* ShipRunnable::__gt__ / __rshift__: the redirect target.                 *)
(***************************************************************************)
RedirectTargetOf(target, append, fds) ==
    CASE target.kind = "str" -> Ok(FilePathTarget(target.path, append))
      [] target.kind = "file" ->
            IF target.fileno \in fds
                THEN Ok(FileDescriptorTarget(Min((0 .. 64) \ fds)))
                ELSE Err("OSError: failed to duplicate file descriptor")
      [] OTHER -> Err("TypeError: redirect target must be a path or a file-like object")

RedirectTargets ==
    {[kind |-> "str", path |-> p] : p \in PathNames}
        \cup {[kind |-> "file", fileno |-> f] : f \in FileNos}
        \cup {[kind |-> "other"]}

(***************************************************************************)
(* ShipRunnable::with_env: merge into an existing WithEnv, else wrap.      *)
(***************************************************************************)
Extend(existing, overlay) ==
    [k \in DOMAIN existing \cup DOMAIN overlay |->
        IF k \in DOMAIN overlay THEN overlay[k] ELSE existing[k]]

\* A faulty variant: always one more wrapper.
WithEnvResultNested(h, self, overlay) == WithEnv(self, overlay)

WithEnvResult(h, self, overlay) ==
    IF h[self].t = "WithEnv"
        THEN WithEnv(h[self].runnable, Extend(h[self].env_overlay, overlay))
        ELSE WithEnv(self, overlay)

(***************************************************************************)
(* The facade calls as actions on the heap of objects.                     *)
(***************************************************************************)
NoCall == [op |-> "none", args |-> <<>>, res |-> 0, err |-> ""]
Call(op, args, res, err) == [op |-> op, args |-> args, res |-> res, err |-> err]

AlgStart ==
    /\ heap = <<>>
    /\ live = {}
    /\ open_fds = InitFds
    /\ last = NoCall

\* A faulty variant: the new node is also written into the left operand.
AllocateInPlace(op, args, node) ==
    /\ heap' = Append(IF args = <<>> THEN heap ELSE [heap EXCEPT ![args[1]] = node], node)
    /\ live' = live \cup {Len(heap) + 1}
    /\ last' = Call(op, args, Len(heap) + 1, "")

\* Ok(ShipRunnable(Arc::new(node))): a new object, handed to the interpreter.
Allocate(op, args, node) ==
    /\ heap' = Append(heap, node)
    /\ live' = live \cup {Len(heap) + 1}
    /\ last' = Call(op, args, Len(heap) + 1, "")

Raise(op, args, err) ==
    /\ last' = Call(op, args, 0, err)
    /\ UNCHANGED <<heap, live>>

cmd(prog, args) ==
    /\ Len(heap) < MaxObjs
    /\ Allocate("cmd", <<>>, Command(prog, args))
    /\ UNCHANGED open_fds

sub(runnable) ==
    /\ Len(heap) < MaxObjs
    /\ Allocate("sub", <<runnable>>, Subshell(runnable))
    /\ UNCHANGED open_fds

or(self, other) ==
    /\ Len(heap) < MaxObjs
    /\ LET r == OrResult(heap, self, other)
       IN  IF r.err = "" THEN Allocate("or", <<self, other>>, r.node)
           ELSE Raise("or", <<self, other>>, r.err)
    /\ UNCHANGED open_fds

pipe(cmd1, cmd2, cmds) ==
    /\ Len(heap) + 1 + Len(cmds) <= MaxObjs
    /\ LET r == PipeFold(heap, cmd1, <<cmd2>> \o cmds)
       IN  IF r.err = ""
               THEN /\ heap' = r.h
                    /\ live' = live \cup {r.id}
                    /\ last' = Call("pipe", <<cmd1, cmd2>> \o cmds, r.id, "")
               ELSE Raise("pipe", <<cmd1, cmd2>> \o cmds, r.err)
    /\ UNCHANGED open_fds

redirect(op, self, target, append) ==
    /\ Len(heap) < MaxObjs
    /\ LET r == RedirectTargetOf(target, append, open_fds)
       IN  IF r.err = ""
               THEN /\ Allocate(op, <<self>>, Redirect(self, r.node))
                    /\ open_fds' = IF r.node.t = "FileDescriptor"
                                       THEN open_fds \cup {r.node.fd} ELSE open_fds
               ELSE /\ Raise(op, <<self>>, r.err)
                    /\ UNCHANGED open_fds

gt(self, target) == redirect("gt", self, target, FALSE)

rshift(self, target) == redirect("rshift", self, target, TRUE)

with_env(self, kwargs) ==
    /\ Len(heap) < MaxObjs
    /\ Allocate("with_env", <<self>>, WithEnvResult(heap, self, kwargs))
    /\ UNCHANGED open_fds

with_env_none(self) ==
    /\ Len(heap) < MaxObjs
    /\ Raise("with_env", <<self>>, "TypeError: with_env() requires keyword arguments")
    /\ UNCHANGED open_fds

(***************************************************************************)
(* EnvValue::to_string_repr and EnvValue::parse_from_string (env.rs).      *)
(* Where a string is read character by character it is a sequence of       *)
(* one-character strings.  A Decimal holds its value in units of           *)
(* 10^-DecimalScale.                                                       *)
(***************************************************************************)
DecimalScale == 3

DigitChars == <<"0", "1", "2", "3", "4", "5", "6", "7", "8", "9">>
Digits == {DigitChars[i] : i \in 1 .. 10}
DigitVal(c) == (CHOOSE i \in 1 .. 10 : DigitChars[i] = c) - 1

RECURSIVE Pow10(_)
Pow10(n) == IF n = 0 THEN 1 ELSE 10 * Pow10(n - 1)

\* str::contains(char), str::starts_with(&str)
contains(s, c) == \E i \in 1 .. Len(s) : s[i] = c
starts_with(s, prefix) == Len(s) >= Len(prefix) /\ SubSeq(s, 1, Len(prefix)) = prefix

\* str::split(c): the pieces between the occurrences of c, empty pieces kept
RECURSIVE split(_, _)
split(s, c) ==
    IF ~contains(s, c) THEN <<s>>
    ELSE LET i == Min({j \in 1 .. Len(s) : s[j] = c})
         IN  <<SubSeq(s, 1, i - 1)>> \o split(SubSeq(s, i + 1, Len(s)), c)

\* [String]::join(sep)
RECURSIVE join(_, _)
join(parts, sep) ==
    IF parts = <<>> THEN <<>>
    ELSE IF Len(parts) = 1 THEN parts[1]
    ELSE parts[1] \o sep \o join(Tail(parts), sep)

IsDigits(s) == s # <<>> /\ \A i \in 1 .. Len(s) : s[i] \in Digits

RECURSIVE DigitsValue(_)
DigitsValue(s) ==
    IF s = <<>> THEN 0 ELSE 10 * DigitsValue(SubSeq(s, 1, Len(s) - 1)) + DigitVal(s[Len(s)])

RECURSIVE NatToString(_)
NatToString(n) ==
    IF n < 10 THEN <<DigitChars[n + 1]>> ELSE NatToString(n \div 10) \o <<DigitChars[(n % 10) + 1]>>

\* i64::to_string
IntToString(i) == IF i < 0 THEN <<"-">> \o NatToString(-i) ELSE NatToString(i)

Unsigned(s) == IF s # <<>> /\ s[1] \in {"+", "-"} THEN Tail(s) ELSE s
Negative(s) == s # <<>> /\ s[1] = "-"

\* str::parse::<i64>: an optional sign and at least one digit
parse_i64(s) ==
    IF IsDigits(Unsigned(s))
        THEN [ok |-> TRUE, v |-> IF Negative(s) THEN -DigitsValue(Unsigned(s))
                                 ELSE DigitsValue(Unsigned(s))]
        ELSE [ok |-> FALSE]

\* the digits of a fraction as units of 10^-DecimalScale
FractionUnits(frac) == DigitsValue(frac) * Pow10(DecimalScale - Len(frac))

\* str::parse::<f64> of a string that holds a '.': an optional sign, digits, '.',
\* digits, one of the two digit runs possibly empty
parse_f64(s) ==
    LET u == Unsigned(s)
        parts == split(u, ".")
        whole == parts[1]
        frac == parts[2]
    IN  IF /\ Len(parts) = 2
           /\ whole \o frac # <<>>
           /\ \A i \in 1 .. Len(whole) : whole[i] \in Digits
           /\ \A i \in 1 .. Len(frac) : frac[i] \in Digits
           /\ Len(frac) <= DecimalScale
            THEN LET units == DigitsValue(whole) * Pow10(DecimalScale) + FractionUnits(frac)
                 IN  [ok |-> TRUE, v |-> IF Negative(s) THEN -units ELSE units]
            ELSE [ok |-> FALSE]

RECURSIVE TrimZeros(_)
TrimZeros(s) ==
    IF s # <<>> /\ s[Len(s)] = "0" THEN TrimZeros(SubSeq(s, 1, Len(s) - 1)) ELSE s

RECURSIVE PadZeros(_, _)
PadZeros(s, n) == IF Len(s) >= n THEN s ELSE PadZeros(<<"0">> \o s, n)

\* f64::to_string: the shortest text that reads back as the same value; a
\* value without a fraction prints without a '.'
DecimalToString(d) ==
    LET abs == IF d < 0 THEN -d ELSE d
        whole == NatToString(abs \div Pow10(DecimalScale))
        frac == TrimZeros(PadZeros(NatToString(abs % Pow10(DecimalScale)), DecimalScale))
        text == IF frac = <<>> THEN whole ELSE whole \o <<".">> \o frac
    IN  IF d < 0 THEN <<"-">> \o text ELSE text

RECURSIVE to_string_repr(_)
to_string_repr(value) ==
    CASE value.k = "String" -> value.v
      [] value.k = "Integer" -> IntToString(value.v)
      [] value.k = "Decimal" -> DecimalToString(value.v)
      [] value.k = "Bool" -> IF value.v THEN <<"T", "r", "u", "e">> ELSE <<"F", "a", "l", "s", "e">>
      [] value.k = "None" -> <<>>
      [] value.k = "List" ->
            join([i \in 1 .. Len(value.v) |-> to_string_repr(value.v[i])], <<":">>)
      [] value.k = "FilePath" -> value.v

RECURSIVE parse_from_string(_)
parse_from_string(s) ==
    IF s = <<>> THEN None
    ELSE IF s = <<"T", "r", "u", "e">> THEN Bool(TRUE)
    ELSE IF s = <<"F", "a", "l", "s", "e">> THEN Bool(FALSE)
    ELSE IF ~contains(s, ".") /\ parse_i64(s).ok THEN Integer(parse_i64(s).v)
    ELSE IF contains(s, ".") /\ parse_f64(s).ok THEN Decimal(parse_f64(s).v)
    ELSE IF contains(s, ":")
        THEN LET pieces == split(s, ":")
             IN  List([i \in 1 .. Len(pieces) |-> parse_from_string(pieces[i])])
    ELSE IF \/ starts_with(s, <<"/">>)
            \/ (starts_with(s, <<"~">>) /\ contains(s, "/"))
            \/ starts_with(s, <<".", "/">>)
            \/ starts_with(s, <<".", ".", "/">>)
        THEN FilePath(s)
    ELSE String(s)

(***************************************************************************)
(* ShellEnvironment (env.rs): the open table env_vars, the directory       *)
(* stack and the reserved slots.                                           *)
(***************************************************************************)
MaxOps == 2

ShellPid == 100
ParentPid == 99

Dirs == {"/", "/a", "/b", "/home", "/deep"}

\* The directories env::current_dir() cannot name (the path is longer than
\* the system allows, or the directory has been removed): set_current_dir
\* enters them, current_dir fails in them.
Unnameable == {"/deep"}

Some(v) == [some |-> TRUE, v |-> v]
Absent == [some |-> FALSE]

\* ShellEnvironment::get
get(e, key) ==
    CASE key = "PPID" -> Some(e.ppid)
      [] key = "OLDPWD" -> Some(e.old_pwd)
      [] key = "PS1" -> Some(e.ps1)
      [] key = "PS2" -> Some(e.ps2)
      [] key = "PS4" -> Some(e.ps4)
      [] key = "?" -> Some(e.last_exit)
      [] key = "$" -> Some(e.pid)
      [] OTHER -> IF key \in DOMAIN e.env_vars THEN Some(e.env_vars[key]) ELSE Absent

Insert(table, key, value) ==
    [k \in DOMAIN table \cup {key} |-> IF k = key THEN value ELSE table[k]]

Remove(table, key) == [k \in DOMAIN table \ {key} |-> table[k]]

\* ShellEnvironment::set ("ENV" panics: see Panics)
set(e, key, value) ==
    CASE key = "PPID" -> [e EXCEPT !.ppid = value]
      [] key = "OLDPWD" -> [e EXCEPT !.old_pwd = value]
      [] key = "PS1" -> [e EXCEPT !.ps1 = value]
      [] key = "PS2" -> [e EXCEPT !.ps2 = value]
      [] key = "PS4" -> [e EXCEPT !.ps4 = value]
      [] OTHER -> [e EXCEPT !.env_vars = Insert(e.env_vars, key, value)]

\* ShellEnvironment::get and ::set both panic on the key ENV.
Panics(key) == key = "ENV"

\* ShellEnvironment::unset
unset(e, key) == [e EXCEPT !.env_vars = Remove(e.env_vars, key)]

\* ShellEnvironment::keys / contains_key / len / to_envp: the open table alone.
keys(e) == DOMAIN e.env_vars
contains_key(e, key) == key \in DOMAIN e.env_vars
len(e) == Cardinality(DOMAIN e.env_vars)
to_envp(e) == {<<k, e.env_vars[k]>> : k \in DOMAIN e.env_vars}

\* A faulty variant of set_last_exit: the code is stored through set().
set_last_exit_through_set(e, exit_code) == set(e, "?", Integer(exit_code))

\* set_last_exit
set_last_exit(e, exit_code) == [e EXCEPT !.last_exit = Integer(exit_code)]

push_dir(e, dir) == [e EXCEPT !.dir_stack = Append(e.dir_stack, dir)]
pop_dir(e) == [e EXCEPT !.dir_stack = SubSeq(e.dir_stack, 1, Len(e.dir_stack) - 1)]

(***************************************************************************)
(* The builtins that write the store (builtins.rs).  A state st is the     *)
(* store and the working directory of the process the builtin runs in.     *)
(* A builtin returns the i32 it returns in the code, or ends the process.  *)
(***************************************************************************)
Returned(st, ret) == [st |-> st, ret |-> ret, fate |-> "returned"]
Exited(st, ret) == [st |-> st, ret |-> ret, fate |-> "exited"]

PathOf(opt) ==
    IF opt.some /\ opt.v.k \in {"String", "FilePath"} THEN Some(opt.v.v) ELSE Absent

\* cd: the target directory, if one can be determined
cd_target(st, args) ==
    CASE args = <<>> -> PathOf(get(st.env, "HOME"))
      [] args # <<>> /\ args[1] = "-" -> PathOf(get(st.env, "OLDPWD"))
      [] args # <<>> /\ args[1] = "~" -> PathOf(get(st.env, "HOME"))
      [] OTHER -> Some(args[1])

cd(st, args) ==
    LET target == cd_target(st, args)
    IN  IF ~target.some THEN Returned(st, 1)
        ELSE IF st.cwd \in Unnameable THEN Returned(st, 1)
        ELSE IF target.v \notin Dirs THEN Returned(st, 1)
        ELSE IF target.v \in Unnameable THEN Returned([st EXCEPT !.cwd = target.v], 1)
        ELSE Returned([st EXCEPT !.env = set(set(st.env, "OLDPWD", FilePath(st.cwd)),
                                             "PWD", FilePath(target.v)),
                                 !.cwd = target.v], 0)

\* pushd: no argument, or current_dir fails: 1; else push_dir(current_dir)
\* and then cd(args), whose code is returned
pushd(st, args) ==
    IF args = <<>> THEN Returned(st, 1)
    ELSE IF st.cwd \in Unnameable THEN Returned(st, 1)
    ELSE cd([st EXCEPT !.env = push_dir(st.env, st.cwd)], args)

\* popd: an argument, or an empty stack: 1; else pop_dir and then cd to the
\* popped directory, whose code is returned

popd(st, args) ==
    IF args # <<>> THEN Returned(st, 1)
    ELSE IF st.env.dir_stack = <<>> THEN Returned(st, 1)
    ELSE cd([st EXCEPT !.env = pop_dir(st.env)],
            <<st.env.dir_stack[Len(st.env.dir_stack)]>>)

\* args[0].parse::<i32>().unwrap_or(1), for the arguments the model passes
ParseExit(arg) ==
    CASE arg = "0" -> 0 [] arg = "3" -> 3 [] arg = "300" -> 300 [] OTHER -> 1

exit_builtin(st, args) == Exited(st, IF args = <<>> THEN 0 ELSE ParseExit(args[1]))

\* get_builtin(name)(args): the registry's dispatch.  pwd and dirs print and
\* write nothing.
RunBuiltin(st, name, args) ==
    CASE name = "cd" -> cd(st, args)
      [] name = "pushd" -> pushd(st, args)
      [] name = "popd" -> popd(st, args)
      [] name = "pwd" -> Returned(st, 0)
      [] name = "dirs" -> Returned(st, IF args = <<>> THEN 0 ELSE 1)
      [] name \in {"exit", "quit"} -> exit_builtin(st, args)

(***************************************************************************)
(* The executor (exec/mod.rs, exec/pipeline.rs) on the lowered CommandSpec.*)
(* oc is what the processes outside the model do: the wait status of each  *)
(* exec'd program and whether a redirect's file can be opened.             *)
(***************************************************************************)
CommandSpecCommand(program, args) == [t |-> "Command", program |-> program, args |-> args]
CommandSpecBuiltin(name, args) == [t |-> "Builtin", name |-> name, args |-> args]

ExitedStatus(code) == [kind |-> "Exited", n |-> code]
SignaledStatus(sig) == [kind |-> "Signaled", n |-> sig]

U8(n) == n % 256

\* wait_for_child: Exited(code) -> code as u8; Signaled(sig) -> 128 + sig as u8
wait_for_child(status) ==
    IF status.kind = "Exited" THEN U8(status.n) ELSE U8(128 + U8(status.n))

\* std::process::exit(code) as the parent's wait sees it
ExitStatusOf(code) == ExitedStatus(U8(code))

Ran(st, code) == [st |-> st, code |-> code, fate |-> "returned"]

\* A process as the executor sees it: the store, the working directory and
\* the descriptor table (descriptor -> what it is open on).
StdFds == [fd \in 0 .. 2 |-> "tty"]
ProcessState(e, dir) == [env |-> e, cwd |-> dir, fds |-> StdFds]

\* F applied to the value of x, which is computed once
Strict(F(_), x) == CHOOSE y \in {F(v) : v \in {x}} : TRUE

dup2(fds, old, new) ==
    Strict(LAMBDA t : IF old \notin DOMAIN t THEN t
                      ELSE [fd \in DOMAIN t \cup {new} |-> IF fd = new THEN t[old] ELSE t[fd]],
           fds)

close(fds, old) == Strict(LAMBDA t : [fd \in DOMAIN t \ {old} |-> t[fd]], fds)

\* OpenOptions::open + into_raw_fd: the lowest free descriptor
open(fds, path) ==
    Strict(LAMBDA t :
               Strict(LAMBDA new :
                          [fd |-> new,
                           fds |-> [f \in DOMAIN t \cup {new} |-> IF f = new THEN path ELSE t[f]]],
                      Min((0 .. 64) \ DOMAIN t)),
           fds)

\* A faulty variant: the opened descriptor is not closed after dup2.
redirected_leaking(st, target) ==
    IF target.t = "FilePath"
        THEN LET o == open(st.fds, target.path)
             IN  [st EXCEPT !.fds = dup2(o.fds, o.fd, 1)]
        ELSE [st EXCEPT !.fds = dup2(st.fds, target.fd, 1)]

\* the child of execute_redirect once stdout is redirected to target
redirected(st, target) ==
    IF target.t = "FilePath"
        THEN LET o == open(st.fds, target.path)
             IN  [st EXCEPT !.fds = close(dup2(o.fds, o.fd, 1), o.fd)]
        ELSE [st EXCEPT !.fds = close(dup2(st.fds, target.fd, 1), target.fd)]

\* fork_and_run: the child runs child_fn to the result r and exits with its
\* code; this process keeps its own state and waits for the child.
run_without_fork(st, r) == [st |-> r.st, code |-> U8(r.code), fate |-> r.fate]

fork_and_run(st, r) == Ran(st, wait_for_child(ExitStatusOf(r.code)))

\* What a process that runs r and then calls exit(r.code) leaves to its parent.
ChildStatus(r) == ExitStatusOf(r.code)

Snapshot(e, overlay) == [k \in DOMAIN overlay |-> get(e, k)]

RECURSIVE ApplyAll(_, _, _)
ApplyAll(e, overlay, ks) ==
    IF ks = {} THEN e
    ELSE LET k == CHOOSE x \in ks : TRUE
         IN  ApplyAll(set(e, k, overlay[k]), overlay, ks \ {k})

RECURSIVE RestoreAll(_, _, _)
RestoreAll(e, saved, ks) ==
    IF ks = {} THEN e
    ELSE LET k == CHOOSE x \in ks : TRUE
         IN  RestoreAll(IF saved[k].some THEN set(e, k, saved[k].v) ELSE unset(e, k),
                        saved, ks \ {k})

RECURSIVE execute_command_spec(_, _, _)

\* The exit code of a process that ends in a panic.
PanicExit == 101

\* exec_pipeline_stage in a forked child: the status the child ends with; a
\* stage that is a Pipeline panics ("Nested pipelines are impossible ...")
exec_pipeline_stage(st, spec, oc) ==
    CASE spec.t = "Command" -> oc.status[spec.program]
      [] spec.t \in {"Builtin", "Redirect", "WithEnv"} ->
            ChildStatus(execute_command_spec(st, spec, oc))
      [] spec.t = "Subshell" -> ChildStatus(execute_command_spec(st, spec.runnable, oc))
      [] spec.t = "Pipeline" -> ExitedStatus(PanicExit)

\* run_pipeline: the predecessors run in forked children; a final builtin runs
\* in this process, any other final stage in one more child that is waited for.
run_pipeline(st, predecessors, final_cmd, oc) ==
    IF final_cmd.t = "Builtin"
        THEN LET b == RunBuiltin(st, final_cmd.name, final_cmd.args)
             IN  [st |-> b.st, code |-> U8(b.ret), fate |-> b.fate]
        ELSE Ran(st, wait_for_child(exec_pipeline_stage(st, final_cmd, oc)))

\* execute_redirect: what the closure run in the child comes to
redirect_child(st, spec, target, oc) ==
    IF target.t = "FilePath" /\ ~oc.open_ok THEN Ran(st, 1)
    ELSE execute_command_spec(redirected(st, target), spec, oc)

\* execute_redirect: the descriptors of the child when its closure is done
\* with the target, and the spec it then runs, if any
redirect_child_fds(st, target, oc) ==
    IF target.t = "FilePath" /\ ~oc.open_ok THEN st.fds ELSE redirected(st, target).fds

redirect_child_runs(spec, target, oc) ==
    IF target.t = "FilePath" /\ ~oc.open_ok THEN <<>> ELSE <<spec>>

\* execute_subshell
execute_subshell(st, spec, oc) == fork_and_run(st, execute_command_spec(st, spec, oc))

\* execute_with_env
execute_with_env(st, spec, overlay, oc) ==
    LET saved == Snapshot(st.env, overlay)
        applied == [st EXCEPT !.env = ApplyAll(st.env, overlay, DOMAIN overlay)]
        r == execute_command_spec(applied, spec, oc)
    IN  IF r.fate = "exited" THEN r
        ELSE [r EXCEPT !.st.env = RestoreAll(r.st.env, saved, DOMAIN saved)]

execute_command_spec(st, spec, oc) ==
    CASE spec.t = "Command" -> Ran(st, wait_for_child(oc.status[spec.program]))
      [] spec.t = "Builtin" ->
            LET b == RunBuiltin(st, spec.name, spec.args)
            IN  [st |-> b.st, code |-> U8(b.ret), fate |-> b.fate]
      [] spec.t = "Pipeline" -> run_pipeline(st, spec.predecessors, spec.final_cmd, oc)
      [] spec.t = "Subshell" -> execute_subshell(st, spec.runnable, oc)
      [] spec.t = "Redirect" ->
            fork_and_run(st, redirect_child(st, spec.runnable, spec.target, oc))
      [] spec.t = "WithEnv" -> execute_with_env(st, spec.runnable, spec.env_overlay, oc)

(***************************************************************************)
(* Inputs of the store and of the executor.                                *)
(***************************************************************************)
DistinguishedKeys == {"?", "$", "PPID", "OLDPWD", "PS1", "PS2", "PS4"}
SetKeys == DistinguishedKeys \cup {"ENV", "FOO", "PWD"}
SetValues == {String("v"), Integer(7)}

Statuses == {ExitedStatus(0), ExitedStatus(7), SignaledStatus(9)}
Oracles ==
    {[status |-> [p \in {"ls"} |-> s], open_ok |-> TRUE] : s \in Statuses}
        \cup {[status |-> [p \in {"ls"} |-> ExitedStatus(0)], open_ok |-> FALSE]}

StageSpecs ==
    {CommandSpecCommand("ls", <<"-l">>),
     CommandSpecBuiltin("cd", <<"/a">>),
     CommandSpecBuiltin("cd", <<"-">>),
     CommandSpecBuiltin("cd", <<"/nx">>),
     CommandSpecBuiltin("pushd", <<"/home">>),
     CommandSpecBuiltin("popd", <<>>),
     CommandSpecBuiltin("exit", <<"3">>)}

InnerSpecs ==
    {CommandSpecCommand("ls", <<"-l">>),
     CommandSpecBuiltin("cd", <<"/a">>),
     CommandSpecBuiltin("cd", <<"-">>),
     CommandSpecBuiltin("exit", <<"3">>)}

Overlays ==
    {[k \in {key} |-> String("o")] : key \in {"?", "$", "PPID", "OLDPWD", "PS1", "FOO", "PWD"}}
        \cup {[k \in {"FOO", "PS1"} |-> Integer(1)]}

WithEnvSpecs == {WithEnv(r, o) : r \in InnerSpecs, o \in Overlays}

Requests ==
    StageSpecs
        \cup {Subshell(r) : r \in InnerSpecs}
        \cup {Redirect(r, FilePathTarget("out", FALSE)) : r \in InnerSpecs}
        \cup {Pipeline(<<CommandSpecCommand("ls", <<"-l">>)>>, r) : r \in StageSpecs}
        \cup WithEnvSpecs
        \cup {Subshell(CommandSpecBuiltin("pushd", <<"/home">>)),
              Subshell(WithEnv(CommandSpecBuiltin("cd", <<"/a">>), [FOO |-> String("o")])),
              Subshell(Redirect(CommandSpecBuiltin("exit", <<"0">>), FileDescriptorTarget(2)))}
        \cup {WithEnv(Subshell(CommandSpecBuiltin("cd", <<"/a">>)), [FOO |-> String("o")]),
              Pipeline(<<CommandSpecBuiltin("cd", <<"/a">>)>>,
                       WithEnv(CommandSpecCommand("ls", <<"-l">>), [FOO |-> String("o")]))}

(***************************************************************************)
(* The store after initialize() and the calls on it.                       *)
(***************************************************************************)
InitialEnv ==
    [env_vars |-> [k \in {"HOME", "PWD", "PATH", "SHLVL"} |->
                      CASE k = "HOME" -> FilePath("/home")
                        [] k = "PWD" -> FilePath("/")
                        [] k = "PATH" -> List(<<FilePath("/usr/bin"), FilePath("/bin")>>)
                        [] k = "SHLVL" -> Integer(0)],
     dir_stack |-> <<>>,
     last_exit |-> Integer(0),
     pid |-> Integer(ShellPid),
     ppid |-> Integer(ParentPid),
     old_pwd |-> None,
     ps1 |-> None,
     ps2 |-> None,
     ps4 |-> None]

\* What the interpreter last called: set(t, v), unset(t), or execute of a request
\* of variant t (a WithEnv with overlay keys ks) that returned exit_code.
EnvCall(op, t, v, ks, exit_code) ==
    [op |-> op, t |-> t, v |-> v, ks |-> ks, exit_code |-> exit_code]

NoEnvCall == EnvCall("none", "", None, {}, 0)

EnvStart ==
    /\ env = InitialEnv
    /\ cwd = "/"
    /\ shell = "running"
    /\ last_call = NoEnvCall
    /\ nops = 0

Counted ==
    /\ shell = "running"
    /\ nops < MaxOps
    /\ nops' = nops + 1

\* The cd builtin called on its own, in a shell with or without HOME.
MaxCds == 3

CdArgs == {<<>>, <<"-">>, <<"~">>, <<"/a">>, <<"/b">>, <<"/home">>, <<"/nx">>, <<"/deep">>}

CdStart ==
    /\ env \in {InitialEnv, unset(InitialEnv, "HOME")}
    /\ cwd = "/"
    /\ shell = "running"
    /\ last_call = NoEnvCall
    /\ nops = 0

call_cd(args) ==
    /\ nops < MaxCds
    /\ nops' = nops + 1
    /\ LET r == cd(ProcessState(env, cwd), args)
       IN  /\ env' = r.st.env
           /\ cwd' = r.st.cwd
           /\ last_call' = EnvCall("cd", "Builtin", None, {}, r.ret)
    /\ UNCHANGED shell

\* cd, pushd or popd called on its own; the call remembers the working
\* directory and the directory stack it started from
call_builtin(name, args) ==
    /\ nops < MaxCds
    /\ nops' = nops + 1
    /\ LET r == RunBuiltin(ProcessState(env, cwd), name, args)
       IN  /\ env' = r.st.env
           /\ cwd' = r.st.cwd
           /\ last_call' = EnvCall(name, "Builtin",
                                   [cwd |-> cwd, dir_stack |-> env.dir_stack], {}, r.ret)
    /\ UNCHANGED shell

\* set_var: the write lock, then ShellEnvironment::set
set_var(key, value) ==
    /\ Counted
    /\ IF Panics(key)
           THEN /\ shell' = "poisoned"
                /\ UNCHANGED env
           ELSE /\ env' = set(env, key, value)
                /\ UNCHANGED shell
    /\ last_call' = EnvCall("set", key, value, {}, 0)
    /\ UNCHANGED cwd

\* unset_var: the write lock, then ShellEnvironment::unset
unset_var(key) ==
    /\ Counted
    /\ env' = unset(env, key)
    /\ last_call' = EnvCall("unset", key, None, {}, 0)
    /\ UNCHANGED <<cwd, shell>>

OverlayKeys(request) == IF request.t = "WithEnv" THEN DOMAIN request.env_overlay ELSE {}

\* execute: execute_command_spec, then set_last_exit, then the ShellResult
execute(request, oc) ==
    /\ Counted
    /\ LET r == execute_command_spec(ProcessState(env, cwd), request, oc)
       IN  IF r.fate = "exited"
               THEN /\ shell' = "exited"
                    /\ env' = r.st.env
                    /\ cwd' = r.st.cwd
                    /\ last_call' = EnvCall("exit", request.t, None, OverlayKeys(request), r.code)
               ELSE /\ env' = set_last_exit(r.st.env, r.code)
                    /\ cwd' = r.st.cwd
                    /\ last_call' = EnvCall("execute", request.t, None, OverlayKeys(request), r.code)
                    /\ UNCHANGED shell

(***************************************************************************)
(* The store built from an inherited OS environment: from_parent and       *)
(* initialize (env.rs).  The inherited strings, and every value written    *)
(* afterwards, are sequences of characters.                                *)
(***************************************************************************)
\* ShellEnvironment::from_parent: every inherited variable is inserted into
\* env_vars, parsed
from_parent(parent) ==
    [env_vars |-> [k \in DOMAIN parent |-> parse_from_string(parent[k])],
     dir_stack |-> <<>>,
     last_exit |-> Integer(0),
     pid |-> Integer(ShellPid),
     ppid |-> Integer(ParentPid),
     old_pwd |-> None,
     ps1 |-> None,
     ps2 |-> None,
     ps4 |-> None]

DefaultPaths ==
    List(<<FilePath(<<"/", "u", "s", "r", "/", "b", "i", "n">>), FilePath(<<"/", "b", "i", "n">>)>>)

\* initialize: home_dir is what home::home_dir() gives (a FilePath, or None),
\* getcwd what getcwd() gives (a path, or Absent on error)
initialize(parent, home_dir, getcwd) ==
    LET e0 == from_parent(parent)
        e1 == set(e0, "HOME", home_dir)
        e2 == IF ~get(e1, "PWD").some
                  THEN set(e1, "PWD", IF getcwd.some THEN FilePath(getcwd.v) ELSE home_dir)
                  ELSE e1
        e3 == IF ~get(e2, "PATH").some THEN set(e2, "PATH", DefaultPaths) ELSE e2
        shlvl == get(e3, "SHLVL")
        current_shlvl == IF shlvl.some /\ shlvl.v.k = "Integer" THEN shlvl.v.v + 1 ELSE 0
    IN  set(e3, "SHLVL", Integer(current_shlvl))

\* The inherited PATH strings: plain, with a leading, trailing or doubled
\* colon, with a numeric segment, a single directory, a number, empty.
InheritedPaths ==
    {<<"/", "a", ":", "/", "b">>,
     <<":", "/", "a">>,
     <<"/", "a", ":">>,
     <<"/", "a", ":", ":", "/", "b">>,
     <<"/", "a", ":", "1">>,
     <<"a", ":", "b">>,
     <<"/", "a">>,
     <<"a">>,
     <<"7">>,
     <<>>}

Singleton(key, text) == [k \in {key} |-> text]

ParentEnvs ==
    {Singleton("PATH", t) : t \in InheritedPaths}
        \cup {Singleton("OLDPWD", <<"/", "a">>),
              Singleton("PPID", <<"1">>),
              Singleton("PS1", <<"a">>),
              Singleton("FOO", <<"a">>),
              Singleton("SHLVL", <<"1">>),
              Singleton("PWD", <<"/", "b">>)}

\* What the process inherits with what home_dir() and getcwd() answer: a home
\* directory and a working directory, or, for the empty environment, neither.
Startups ==
    {[parent |-> p, home_dir |-> FilePath(<<"/", "h">>), getcwd |-> Some(<<"/">>)] :
        p \in ParentEnvs}
        \cup {[parent |-> <<>>, home_dir |-> None, getcwd |-> Absent]}

TextSetKeys == {"?", "OLDPWD", "PS1", "PATH", "FOO"}
TextSetValues ==
    {String(<<"a">>), Integer(7), List(<<FilePath(<<"/", "a">>), String(<<"b">>)>>)}

TextRequests ==
    {WithEnv(CommandSpecCommand("ls", <<"-l">>), Singleton(key, String(<<"o">>))) :
        key \in {"PS1", "PATH", "$"}}

TextOracles == {[status |-> [p \in {"ls"} |-> ExitedStatus(7)], open_ok |-> TRUE]}

InheritStart ==
    /\ \E startup \in Startups :
           env = initialize(startup.parent, startup.home_dir, startup.getcwd)
    /\ cwd = "/"
    /\ shell = "running"
    /\ last_call = NoEnvCall
    /\ nops = 0

(***************************************************************************)
(* The round trip of a value through the environment of a child: the       *)
(* value is projected with to_string_repr (to_envp) and the string is      *)
(* parsed with parse_from_string (from_parent of the child shell).         *)
(***************************************************************************)
MaxListLen == 2

\* n tenths as a Decimal
Tenths(n) == Decimal(n * Pow10(DecimalScale - 1))

CanonicalScalars ==
    {None, Bool(TRUE), Bool(FALSE)}
        \cup {Integer(i) : i \in {-1, 0, 7, 10}}
        \cup {Tenths(n) : n \in {-5, 0, 10, 15}}
        \cup {FilePath(t) : t \in {<<"/", "a">>, <<".", "/", "a">>, <<".", ".", "/", "a">>,
                                   <<"~", "/", "a">>, <<"/", "a", ":", "b">>}}
        \cup {String(t) : t \in {<<"a">>, <<"a", "b">>}}

ListElements == {String(<<"a">>), FilePath(<<"/", "a">>), Integer(7), Bool(TRUE), None}

CanonicalValues ==
    CanonicalScalars \cup {List(items) : items \in SeqsUpTo(ListElements, MaxListLen)}

ParseStart ==
    /\ rt_value \in CanonicalValues
    /\ rt_text = <<>>
    /\ rt_parsed = None
    /\ rt_pc = "value"

\* to_envp: the value as the text handed to a child
project ==
    /\ rt_pc = "value"
    /\ rt_text' = to_string_repr(rt_value)
    /\ rt_pc' = "projected"
    /\ UNCHANGED <<rt_value, rt_parsed>>

\* from_parent in the child: the text parsed back
parse ==
    /\ rt_pc = "projected"
    /\ rt_parsed' = parse_from_string(rt_text)
    /\ rt_pc' = "parsed"
    /\ UNCHANGED <<rt_value, rt_text>>

(***************************************************************************)
(* Program resolution (exec/resolution.rs) in the child of a Command.      *)
(* Names, directories and paths are sequences of characters; the file      *)
(* system says of each existing path whether any execute bit is set.       *)
(***************************************************************************)
Resolved(path, probed) == [ok |-> TRUE, path |-> path, probed |-> probed]
Failed(error, probed) == [ok |-> FALSE, error |-> error, probed |-> probed]
NoResolution == [ok |-> FALSE, error |-> "none", probed |-> <<>>]

\* A faulty variant of exit_code: 127 for every error.
exit_code_always_127(error) == 127

\* ProgramResolutionError::exit_code
exit_code(error) ==
    CASE error = "NotFound" -> 127
      [] error = "NoSuchFile" -> 127
      [] error = "PermissionDenied" -> 126
      [] error = "InvalidPath" -> 127

\* path.exists(), and metadata.permissions().mode() & 0o111 != 0
exists(fs, path) == path \in DOMAIN fs
executable(fs, path) == path \in DOMAIN fs /\ fs[path]

\* PathBuf::from(dir).join(program), program holding no '/'
path_join(dir, name) == IF dir[Len(dir)] = "/" THEN dir \o name ELSE dir \o <<"/">> \o name

FallbackDirs ==
    <<<<"/", "u", "s", "r", "/", "l", "o", "c", "a", "l", "/", "b", "i", "n">>,
      <<"/", "u", "s", "r", "/", "b", "i", "n">>,
      <<"/", "b", "i", "n">>>>

\* the match on get_var("PATH"): the directories, or the error InvalidPath
path_dirs(path_var) ==
    IF ~path_var.some THEN [ok |-> TRUE, dirs |-> FallbackDirs]
    ELSE LET value == path_var.v
         IN  CASE value.k = "List" ->
                    IF \A i \in 1 .. Len(value.v) : value.v[i].k \in {"String", "FilePath"}
                        THEN [ok |-> TRUE, dirs |-> [i \in 1 .. Len(value.v) |-> value.v[i].v]]
                        ELSE [ok |-> FALSE]
               [] value.k = "String" -> [ok |-> TRUE, dirs |-> split(value.v, ":")]
               [] value.k = "FilePath" -> [ok |-> TRUE, dirs |-> <<value.v>>]
               [] OTHER -> [ok |-> FALSE]

\* the loop over path_dirs: the candidates probed so far, first hit returned
RECURSIVE search(_, _, _, _)
search(dirs, name, fs, probed) ==
    IF dirs = <<>> THEN Failed("NotFound", probed)
    ELSE IF Head(dirs) = <<>> THEN search(Tail(dirs), name, fs, probed)
    ELSE LET candidate == path_join(Head(dirs), name)
         IN  IF exists(fs, candidate) /\ executable(fs, candidate)
                 THEN Resolved(candidate, Append(probed, candidate))
                 ELSE search(Tail(dirs), name, fs, Append(probed, candidate))

\* resolve_program_path
resolve_program_path(name, path_var, fs) ==
    IF contains(name, "/")
        THEN IF ~exists(fs, name) THEN Failed("NoSuchFile", <<name>>)
             ELSE IF ~executable(fs, name) THEN Failed("PermissionDenied", <<name>>)
             ELSE Resolved(name, <<name>>)
        ELSE LET found == path_dirs(path_var)
             IN  IF found.ok THEN search(found.dirs, name, fs, <<>>)
                 ELSE Failed("InvalidPath", <<>>)

\* resolve_and_exec in the child: the status the child ends with.  ran is what
\* execve and the program do: execve succeeds and the program ends with a
\* status of its own, or execve fails.
resolve_and_exec(name, path_var, fs, ran) ==
    LET prog_path == resolve_program_path(name, path_var, fs)
    IN  IF ~prog_path.ok THEN ExitStatusOf(exit_code(prog_path.error))
        ELSE IF ~ran.execve_ok THEN ExitStatusOf(127)
        ELSE ran.status

NameL == <<"l">>
DirA == <<"/", "a">>
DirB == <<"/", "b">>
FileAL == <<"/", "a", "/", "l">>
FileBL == <<"/", "b", "/", "l">>
FileHereL == <<".", "/", "l">>

ProgramNames == {NameL, FileAL, FileHereL}

\* path -> an execute bit is set
Filesystems ==
    {[f \in {FileAL, FileBL} |-> TRUE],
     [f \in {FileAL, FileBL} |-> f = FileBL],
     [f \in {FileBL, FileHereL} |-> TRUE],
     [f \in {FileAL, FileHereL} |-> FALSE],
     [f \in {<<"/", "b", "i", "n", "/", "l">>} |-> TRUE]}

PathValues ==
    {String(<<"/", "a", ":", ":", "/", "b">>),
     String(<<"/", "b", "/">>),
     FilePath(DirB),
     List(<<String(DirA), FilePath(DirB)>>),
     List(<<FilePath(DirB), Integer(1)>>),
     Integer(7)}

ExecOutcomes ==
    {[execve_ok |-> TRUE, status |-> ExitedStatus(0)],
     [execve_ok |-> FALSE, status |-> ExitedStatus(0)]}

ResolveStart ==
    /\ InheritStart
    /\ files \in Filesystems
    /\ run_program = <<>>
    /\ resolved = NoResolution

\* execute(Command{name}): fork, resolve_and_exec in the child, the wait and
\* set_last_exit in the shell
run_command(name, ran) ==
    /\ execute(CommandSpecCommand(name, <<>>),
               [status |-> [p \in {name} |->
                               resolve_and_exec(name, get(env, "PATH"), files, ran)],
                open_ok |-> TRUE])
    /\ run_program' = name
    /\ resolved' = resolve_program_path(name, get(env, "PATH"), files)
    /\ UNCHANGED files

(***************************************************************************)
(* The which builtin (builtins.rs) with its own search of PATH.             *)
(***************************************************************************)
NameCd == <<"c", "d">>
NameSource == <<"s", "o", "u", "r", "c", "e">>
OptionAll == <<"-", "a">>
OptionSilent == <<"-", "s">>

\* get_builtin(name).is_some(), on the characters of the name
get_builtin(name) ==
    name \in {<<"c", "d">>, <<"p", "w", "d">>, <<"p", "u", "s", "h", "d">>,
              <<"p", "o", "p", "d">>, <<"d", "i", "r", "s">>, <<"e", "x", "i", "t">>,
              <<"q", "u", "i", "t">>, <<"w", "h", "i", "c", "h">>}

\* the match of find_in_path on get_var("PATH"): the elements of a List that
\* are no String and no FilePath are passed over, and every other shape of
\* PATH, like no PATH, gives the default directories
which_path_dirs(path_var) ==
    IF ~path_var.some THEN FallbackDirs
    ELSE LET value == path_var.v
         IN  CASE value.k = "List" ->
                    LET items == SelectSeq(value.v, LAMBDA item : item.k \in {"String", "FilePath"})
                    IN  [i \in 1 .. Len(items) |-> items[i].v]
               [] value.k = "String" -> split(value.v, ":")
               [] value.k = "FilePath" -> <<value.v>>
               [] OTHER -> FallbackDirs

\* the loop of find_in_path over the directories
RECURSIVE scan(_, _, _, _)
scan(dirs, program, fs, find_all) ==
    IF dirs = <<>> THEN <<>>
    ELSE IF Head(dirs) = <<>> THEN scan(Tail(dirs), program, fs, find_all)
    ELSE LET candidate == path_join(Head(dirs), program)
         IN  IF exists(fs, candidate) /\ executable(fs, candidate)
                 THEN <<candidate>> \o (IF find_all THEN scan(Tail(dirs), program, fs, find_all)
                                        ELSE <<>>)
                 ELSE scan(Tail(dirs), program, fs, find_all)

\* find_in_path
find_in_path(program, find_all, path_var, fs) ==
    scan(which_path_dirs(path_var), program, fs, find_all)

\* which: -a and -s are options, every other argument a program; 1 without a
\* program; a program is found if it is a builtin or "source", or if
\* find_in_path finds it; 0 if every program is found
which(args, path_var, fs) ==
    LET show_all == \E i \in 1 .. Len(args) : args[i] = OptionAll
        programs == SelectSeq(args, LAMBDA arg : arg \notin {OptionAll, OptionSilent})
        found_anything(program) ==
            \/ get_builtin(program) \/ program = NameSource
            \/ find_in_path(program, show_all, path_var, fs) # <<>>
    IN  IF programs = <<>> THEN 1
        ELSE IF \A i \in 1 .. Len(programs) : found_anything(programs[i]) THEN 0
        ELSE 1

WhichNames == {NameL, NameCd, NameSource}

WhichArgs ==
    {<<n>> : n \in WhichNames} \cup {<<OptionAll, n>> : n \in WhichNames}
        \cup {<<OptionSilent>>}

\* which called with args, whose last argument is the name asked for, and
\* what execute(Command{name}) would resolve under the same PATH and files
run_which(args) ==
    /\ Counted
    /\ run_program' = args[Len(args)]
    /\ resolved' = resolve_program_path(args[Len(args)], get(env, "PATH"), files)
    /\ last_call' = EnvCall("which", "Builtin", None, {}, which(args, get(env, "PATH"), files))
    /\ UNCHANGED <<env, cwd, shell, files>>

(***************************************************************************)
(* run_pipeline_internal (exec/pipeline.rs), one step per fork, per        *)
(* termination of a child and per wait.  Children are numbered in the      *)
(* order of their forks.                                                   *)
(***************************************************************************)
MaxPreds == 2

PipeStatuses == {ExitedStatus(0), ExitedStatus(7), SignaledStatus(9)}
BuiltinReturns == {0, 1, 300}

Running == [state |-> "running", status |-> ExitedStatus(0)]
Zombie(status) == [state |-> "zombie", status |-> status]
Reaped(status) == [state |-> "reaped", status |-> status]

\* A faulty variant of waitpid: the status of the first child forked.
waitpidFirstForked(ps, pid) == ps[1].status

\* waitpid(pid, None) once the child has terminated
waitpid(ps, pid) == ps[pid].status

\* the capture branch of the final wait (pipeline.rs 223-233)
captured_exit_code(status) ==
    IF status.kind = "Exited" THEN U8(status.n) ELSE U8(128 + U8(status.n))

PipeStart ==
    /\ num_pipes \in 1 .. MaxPreds
    /\ final_stage \in {"Command", "Builtin"}
    /\ capture \in BOOLEAN
    /\ pc = "fork_predecessors"
    /\ child_pids = <<>>
    /\ last_child = 0
    /\ procs = <<>>
    /\ exit_order = <<>>
    /\ builtin_ret = -1
    /\ pipeline_exit = -1

\* one iteration of the loop over the predecessors: fork, push the pid
fork_predecessor ==
    /\ pc = "fork_predecessors"
    /\ Len(child_pids) < num_pipes
    /\ procs' = Append(procs, Running)
    /\ child_pids' = Append(child_pids, Len(procs) + 1)
    /\ UNCHANGED <<num_pipes, final_stage, capture, pc, last_child, exit_order, builtin_ret, pipeline_exit>>

\* the final stage is a builtin: save and redirect the standard descriptors,
\* drop the pipes; no fork
prepare_builtin ==
    /\ pc = "fork_predecessors"
    /\ Len(child_pids) = num_pipes
    /\ final_stage = "Builtin"
    /\ pc' = "wait_predecessors"
    /\ UNCHANGED <<num_pipes, final_stage, capture, child_pids, last_child, procs,
                   exit_order, builtin_ret, pipeline_exit>>

\* the final stage is not a builtin: fork it, drop the pipes
fork_final ==
    /\ pc = "fork_predecessors"
    /\ Len(child_pids) = num_pipes
    /\ final_stage # "Builtin"
    /\ procs' = Append(procs, Running)
    /\ last_child' = Len(procs) + 1
    /\ pc' = "wait_predecessors"
    /\ UNCHANGED <<num_pipes, final_stage, capture, child_pids, exit_order, builtin_ret, pipeline_exit>>

\* a child of the pipeline terminates, with any status, at any time
child_terminates(pid, status) ==
    /\ procs[pid].state = "running"
    /\ procs' = [procs EXCEPT ![pid] = Zombie(status)]
    /\ exit_order' = Append(exit_order, pid)
    /\ UNCHANGED <<num_pipes, final_stage, capture, pc, child_pids, last_child,
                   builtin_ret, pipeline_exit>>

\* A faulty variant: the first predecessor is never waited for.
UnwaitedButFirst == {i \in 2 .. Len(child_pids) : procs[child_pids[i]].state # "reaped"}

\* the predecessors the loop over child_pids has not reached yet
Unwaited == {i \in 1 .. Len(child_pids) : procs[child_pids[i]].state # "reaped"}

\* one iteration of `for child_pid in child_pids { waitpid(child_pid).ok(); }`
wait_predecessor ==
    /\ pc = "wait_predecessors"
    /\ Unwaited # {}
    /\ LET child_pid == child_pids[Min(Unwaited)]
       IN  /\ procs[child_pid].state = "zombie"
           /\ procs' = [procs EXCEPT ![child_pid].state = "reaped"]
    /\ UNCHANGED <<num_pipes, final_stage, capture, pc, child_pids, last_child,
                   exit_order, builtin_ret, pipeline_exit>>

\* func(args) in the shell process, the descriptors restored, the result
run_final_builtin(ret) ==
    /\ pc = "wait_predecessors"
    /\ Unwaited = {}
    /\ final_stage = "Builtin"
    /\ builtin_ret' = ret
    /\ pipeline_exit' = U8(ret)
    /\ pc' = "returned"
    /\ UNCHANGED <<num_pipes, final_stage, capture, child_pids, last_child, procs, exit_order>>

\* the final builtin is exit or quit: the shell process ends
final_builtin_exits ==
    /\ pc = "wait_predecessors"
    /\ Unwaited = {}
    /\ final_stage = "Builtin"
    /\ pc' = "exited"
    /\ UNCHANGED <<num_pipes, final_stage, capture, child_pids, last_child, procs,
                   exit_order, builtin_ret, pipeline_exit>>

\* the wait on last_child: wait_for_child, or its inline twin when capturing
wait_last_child ==
    /\ pc = "wait_predecessors"
    /\ Unwaited = {}
    /\ final_stage # "Builtin"
    /\ procs[last_child].state = "zombie"
    /\ LET status == waitpid(procs, last_child)
       IN  /\ pipeline_exit' = IF capture THEN captured_exit_code(status)
                           ELSE wait_for_child(status)
           /\ procs' = [procs EXCEPT ![last_child].state = "reaped"]
    /\ pc' = "returned"
    /\ UNCHANGED <<num_pipes, final_stage, capture, child_pids, last_child, exit_order,
                   builtin_ret>>

(***************************************************************************)
(* The single-command paths: execute_command (exec/mod.rs) and             *)
(* execute_command_captured (exec/capture.rs), a fork and one wait.        *)
(***************************************************************************)
MaxExitStatus == 255
MaxSignal == 64

WaitStatuses ==
    {ExitedStatus(c) : c \in 0 .. MaxExitStatus} \cup {SignaledStatus(sig) : sig \in 1 .. MaxSignal}

CaptureFds == [stdout_fd |-> 3, stderr_fd |-> 5]

ExitOnly(code) == [exit_code |-> code]
Captured(code, stdout_fd, stderr_fd) ==
    [exit_code |-> code, stdout_fd |-> stdout_fd, stderr_fd |-> stderr_fd]

\* A faulty variant of the capture wait: the signal number without the offset.
wait_for_child_captured_no_offset(status, stdout_fd, stderr_fd) ==
    Captured(U8(status.n), stdout_fd, stderr_fd)

\* wait_for_child_captured
wait_for_child_captured(status, stdout_fd, stderr_fd) ==
    IF status.kind = "Exited"
        THEN Captured(U8(status.n), stdout_fd, stderr_fd)
        ELSE Captured(U8(128 + U8(status.n)), stdout_fd, stderr_fd)

NoWaitResult == [exit_code |-> -1]

WaitStart ==
    /\ wait_mode \in {"normal", "captured"}
    /\ wait_pc = "start"
    /\ wait_child = Running
    /\ wait_result = NoWaitResult

\* fork(): the parent goes on to its wait
fork_child ==
    /\ wait_pc = "start"
    /\ wait_pc' = "forked"
    /\ UNCHANGED <<wait_mode, wait_child, wait_result>>

\* the child exits or is killed
wait_child_terminates(status) ==
    /\ wait_pc = "forked"
    /\ wait_child.state = "running"
    /\ wait_child' = Zombie(status)
    /\ UNCHANGED <<wait_mode, wait_pc, wait_result>>

\* wait_for_child(child)
wait_normal ==
    /\ wait_pc = "forked"
    /\ wait_mode = "normal"
    /\ wait_child.state = "zombie"
    /\ wait_result' = ExitOnly(wait_for_child(wait_child.status))
    /\ wait_child' = Reaped(wait_child.status)
    /\ wait_pc' = "returned"
    /\ UNCHANGED wait_mode

\* wait_for_child_captured(child, stdout_fd, stderr_fd)
wait_captured ==
    /\ wait_pc = "forked"
    /\ wait_mode = "captured"
    /\ wait_child.state = "zombie"
    /\ wait_result' = wait_for_child_captured(wait_child.status, CaptureFds.stdout_fd,
                                              CaptureFds.stderr_fd)
    /\ wait_child' = Reaped(wait_child.status)
    /\ wait_pc' = "returned"
    /\ UNCHANGED wait_mode

(***************************************************************************)
(* The REPL hooks (repl.rs, py_bindings/repl.rs): one Vec of (id, hook) and *)
(* one id counter per kind, all Vecs behind the one RwLock HOOKS.  A        *)
(* callback is Python code: it returns ("plain"), or it calls on() or off() *)
(* itself ("reenters").                                                     *)
(***************************************************************************)
MaxHookOps == 3

Kinds == {"BeforePrompt", "BeforeContinuation", "BeforeExecute", "AfterExecute"}
Callbacks == {"plain", "reenters"}
HookIds == 1 .. MaxHookOps + 1

Ids(list) == [i \in 1 .. Len(list) |-> list[i].id]

\* iter().position(|(hook_id, _)| *hook_id == id)
position(list, id) ==
    IF \E i \in 1 .. Len(list) : list[i].id = id
        THEN Some(Min({i \in 1 .. Len(list) : list[i].id = id}))
        ELSE Absent

\* Vec::remove(pos), positions counted from 1
remove(list, pos) == SubSeq(list, 1, pos - 1) \o SubSeq(list, pos + 1, Len(list))

\* A faulty variant: one counter for the four kinds.
fetch_add_shared(counter, kind) == [k \in DOMAIN counter |-> counter[k] + 1]

\* COUNTER.fetch_add(1, SeqCst): the counter of this kind only
fetch_add(counter, kind) == [counter EXCEPT ![kind] = @ + 1]

HookCall(op, kind, id, ret) == [op |-> op, kind |-> kind, id |-> id, ret |-> ret]

HooksStart ==
    /\ hooks = [k \in Kinds |-> <<>>]
    /\ hook_counter = [k \in Kinds |-> 1]
    /\ reg_log = [k \in Kinds |-> <<>>]
    /\ fire_pc = "idle"
    /\ fire_kind = "BeforePrompt"
    /\ fire_pos = 1
    /\ invoked = <<>>
    /\ hook_call = HookCall("none", "", 0, FALSE)
    /\ hook_ops = 0

\* on(hook, callback) from the interpreter, no firing in progress:
\* register_*_hook takes the id, then pushes under the write lock
on(kind, callback) ==
    /\ fire_pc = "idle"
    /\ hook_ops < MaxHookOps
    /\ hook_ops' = hook_ops + 1
    /\ hook_counter' = fetch_add(hook_counter, kind)
    /\ hooks' = [hooks EXCEPT ![kind] =
                    Append(@, [id |-> hook_counter[kind], callback |-> callback])]
    /\ reg_log' = [reg_log EXCEPT ![kind] = Append(@, hook_counter[kind])]
    /\ hook_call' = HookCall("on", kind, hook_counter[kind], TRUE)
    /\ UNCHANGED <<fire_pc, fire_kind, fire_pos, invoked>>

\* off(hook, id) from the interpreter: unregister_*_hook
off(kind, id) ==
    /\ fire_pc = "idle"
    /\ hook_ops < MaxHookOps
    /\ hook_ops' = hook_ops + 1
    /\ LET pos == position(hooks[kind], id)
       IN  /\ hooks' = IF pos.some THEN [hooks EXCEPT ![kind] = remove(@, pos.v)] ELSE hooks
           /\ hook_call' = HookCall("off", kind, id, pos.some)
    /\ UNCHANGED <<hook_counter, reg_log, fire_pc, fire_kind, fire_pos, invoked>>

\* fire_*_hooks: the read lock is taken and the loop starts
fire(kind) ==
    /\ fire_pc = "idle"
    /\ fire_pc' = "firing"
    /\ fire_kind' = kind
    /\ fire_pos' = 1
    /\ invoked' = <<>>
    /\ UNCHANGED <<hooks, hook_counter, reg_log, hook_call, hook_ops>>

\* one turn of the loop: hook(..).  A callback that calls on() has its id
\* taken from the counter and then, like one that calls off(), asks for the
\* write lock of HOOKS while this thread holds the read lock: the thread
\* blocks for ever or panics, as the lock implementation decides.
invoke ==
    /\ fire_pc = "firing"
    /\ fire_pos <= Len(hooks[fire_kind])
    /\ invoked' = Append(invoked, hooks[fire_kind][fire_pos].id)
    /\ IF hooks[fire_kind][fire_pos].callback = "plain"
           THEN /\ fire_pos' = fire_pos + 1
                /\ UNCHANGED <<fire_pc, hook_counter>>
           ELSE /\ fire_pc' \in {"blocked", "panicked"}
                /\ \/ \E k \in Kinds : hook_counter' = fetch_add(hook_counter, k)
                   \/ UNCHANGED hook_counter
                /\ UNCHANGED fire_pos
    /\ UNCHANGED <<hooks, reg_log, fire_kind, hook_call, hook_ops>>

\* the loop is over: the read guard is dropped
fire_return ==
    /\ fire_pc = "firing"
    /\ fire_pos > Len(hooks[fire_kind])
    /\ fire_pc' = "idle"
    /\ UNCHANGED <<hooks, hook_counter, reg_log, fire_kind, fire_pos, invoked, hook_call,
                   hook_ops>>


(***************************************************************************)
(* ShipRunnable::__call__ (bindings.rs): the object is lowered and         *)
(* executed in the shell process, whose descriptors are those the          *)
(* interpreter holds.  Every Command writes its output to its fd 1.        *)
(***************************************************************************)
\* The tree an object denotes: its node with every child index unfolded.
RECURSIVE Tree(_, _)
Tree(h, id) ==
    LET n == h[id]
    IN  CASE n.t = "Command" -> n
          [] n.t = "Pipeline" ->
                [t |-> "Pipeline",
                 predecessors |-> [i \in 1 .. Len(n.predecessors) |->
                                      Tree(h, n.predecessors[i])],
                 final_cmd |-> Tree(h, n.final_cmd)]
          [] n.t = "Subshell" -> [t |-> "Subshell", runnable |-> Tree(h, n.runnable)]
          [] n.t = "Redirect" ->
                [t |-> "Redirect", runnable |-> Tree(h, n.runnable), target |-> n.target]
          [] n.t = "WithEnv" ->
                [t |-> "WithEnv", runnable |-> Tree(h, n.runnable),
                 env_overlay |-> n.env_overlay]

BuiltinNames == {"cd", "pwd", "pushd", "popd", "dirs", "exit", "quit", "which"}

\* ExecRequest::from(&ShipRunnable): a Pipeline becomes the list of its
\* stages, the predecessors and then the final command
RECURSIVE exec_request(_)
exec_request(tree) ==
    CASE tree.t = "Command" -> [t |-> "Program", name |-> tree.prog, args |-> tree.args]
      [] tree.t = "Pipeline" ->
            [t |-> "Pipeline",
             stages |-> [i \in 1 .. Len(tree.predecessors) + 1 |->
                            exec_request(IF i <= Len(tree.predecessors)
                                             THEN tree.predecessors[i]
                                             ELSE tree.final_cmd)]]
      [] tree.t = "Subshell" -> [t |-> "Subshell", request |-> exec_request(tree.runnable)]
      [] tree.t = "Redirect" ->
            [t |-> "Redirect", request |-> exec_request(tree.runnable),
             target |-> tree.target]
      [] tree.t = "WithEnv" ->
            [t |-> "WithEnv", request |-> exec_request(tree.runnable),
             env_overlay |-> tree.env_overlay]

StagePanic == [t |-> "panic", msg |-> "Pipeline must have at least one stage"]

\* A faulty split: the first stage is taken for the final command.
split_stages_rotated(specs) ==
    IF specs = <<>> THEN StagePanic
    ELSE IF Len(specs) = 1 THEN specs[1]
    ELSE [t |-> "Pipeline", predecessors |-> Tail(specs), final_cmd |-> specs[1]]

\* The Pipeline arm of CommandSpec::from once the stages are lowered: first
\* (or the panic), rest; a single stage is the stage itself, otherwise first
\* and all of rest but its last are the predecessors and its last the final
split_stages(specs) ==
    IF specs = <<>> THEN StagePanic
    ELSE LET first == specs[1]
             rest == Tail(specs)
         IN  IF rest = <<>> THEN first
             ELSE [t |-> "Pipeline",
                   predecessors |-> <<first>> \o SubSeq(rest, 1, Len(rest) - 1),
                   final_cmd |-> rest[Len(rest)]]

\* CommandSpec::from(&ExecRequest): get_builtin decides Builtin or Command
RECURSIVE command_spec(_)
command_spec(request) ==
    CASE request.t = "Program" ->
            IF request.name \in BuiltinNames
                THEN CommandSpecBuiltin(request.name, request.args)
                ELSE CommandSpecCommand(request.name, request.args)
      [] request.t = "Pipeline" ->
            split_stages([i \in 1 .. Len(request.stages) |-> command_spec(request.stages[i])])
      [] request.t = "Subshell" ->
            [t |-> "Subshell", runnable |-> command_spec(request.request)]
      [] request.t = "Redirect" ->
            [t |-> "Redirect", runnable |-> command_spec(request.request),
             target |-> request.target]
      [] request.t = "WithEnv" ->
            [t |-> "WithEnv", runnable |-> command_spec(request.request),
             env_overlay |-> request.env_overlay]

\* CommandSpec::from(&ExecRequest::from(runnable)), on the tree of the object
lower(tree) == command_spec(exec_request(tree))

\* The descriptors of the shell process: the terminal on 0, 1, 2, the
\* interpreter's file object and its duplicates on the others.
FdTable(fds) == [fd \in fds |-> IF fd \in 0 .. 2 THEN "tty" ELSE "log"]

DiskFiles == {"out", "log"}

append_output(d, fds, output) ==
    IF 1 \in DOMAIN fds /\ fds[1] \in DiskFiles
        THEN [d EXCEPT ![fds[1]] = @ \o output]
        ELSE d

\* What the processes of one execution leave on the disk: a Redirect child
\* opens its file (truncating it unless append) and the commands under it
\* write to what fd 1 then is; a predecessor of a pipeline writes to a pipe.
RECURSIVE written(_, _, _, _)
written(d, fds, spec, oc) ==
    CASE spec.t = "Command" -> append_output(d, fds, oc.output)
      [] spec.t = "Builtin" -> d
      [] spec.t \in {"Subshell", "WithEnv"} -> written(d, fds, spec.runnable, oc)
      [] spec.t = "Redirect" ->
            IF spec.target.t = "FilePath" /\ ~oc.open_ok THEN d
            ELSE written(IF spec.target.t = "FilePath" /\ ~spec.target.append
                             THEN [d EXCEPT ![spec.target.path] = <<>>] ELSE d,
                         redirected([fds |-> fds], spec.target).fds, spec.runnable, oc)
      [] spec.t = "Pipeline" -> written(d, fds, spec.final_cmd, oc)

CallOracles ==
    {[status |-> [p \in {"ls"} |-> s], open_ok |-> TRUE, output |-> <<"x">>] :
        s \in {ExitedStatus(0), ExitedStatus(7)}}

CallStart ==
    /\ disk = [f \in DiskFiles |-> <<"old">>]
    /\ calls = <<>>

\* the interpreter closes its own file object
py_close(fd) ==
    /\ fd \in open_fds \ (0 .. 2)
    /\ open_fds' = open_fds \ {fd}
    /\ UNCHANGED <<heap, live, last, envVars, callVars>>

\* __call__: execute(&self.into()), then ShipResult { exit_code }
call_runnable(self, oc) ==
    /\ Counted
    /\ LET spec == lower(Tree(heap, self))
           st == [ProcessState(env, cwd) EXCEPT !.fds = FdTable(open_fds)]
           r == execute_command_spec(st, spec, oc)
       IN  /\ open_fds' = DOMAIN r.st.fds
           /\ cwd' = r.st.cwd
           /\ disk' = written(disk, st.fds, spec, oc)
           /\ calls' = Append(calls, [self |-> self, status |-> oc.status["ls"],
                                      exit_code |-> r.code])
           /\ IF r.fate = "exited"
                  THEN /\ shell' = "exited"
                       /\ env' = r.st.env
                       /\ last_call' = EnvCall("exit", spec.t, None, {}, r.code)
                  ELSE /\ env' = set_last_exit(r.st.env, r.code)
                       /\ last_call' = EnvCall("execute", spec.t, None, {}, r.code)
                       /\ UNCHANGED shell
    /\ UNCHANGED <<heap, live, last>>


\* The file of a Redirect can be opened, or not (a directory, no permission).
RedirectOracles ==
    {[status |-> [p \in {"ls"} |-> ExitedStatus(0)], open_ok |-> ok, output |-> <<"x">>] :
        ok \in BOOLEAN}

\* __call__ of a Redirect object, with what its child did: the descriptors it
\* ran the inner command with and the inner command it ran
call_redirect(self, oc) ==
    /\ heap[self].t = "Redirect"
    /\ Counted
    /\ LET spec == lower(Tree(heap, self))
           st == [ProcessState(env, cwd) EXCEPT !.fds = FdTable(open_fds)]
           r == execute_command_spec(st, spec, oc)
       IN  /\ open_fds' = DOMAIN r.st.fds
           /\ cwd' = r.st.cwd
           /\ disk' = written(disk, st.fds, spec, oc)
           /\ calls' = Append(calls, [self |-> self, open_ok |-> oc.open_ok,
                                      exit_code |-> r.code,
                                      shell_fds |-> r.st.fds,
                                      child_fds |-> redirect_child_fds(st, spec.target, oc),
                                      inner |-> redirect_child_runs(spec.runnable,
                                                                    spec.target, oc)])
           /\ env' = set_last_exit(r.st.env, r.code)
           /\ last_call' = EnvCall("execute", spec.t, None, {}, r.code)
           /\ UNCHANGED shell
    /\ UNCHANGED <<heap, live, last>>

(***************************************************************************)
(* run_pipeline_internal (pipeline.rs) and the capture twins of a single   *)
(* stage (capture.rs) at the level of descriptors and pipes.  Process 0 is *)
(* the shell, process k the child of stage k.  A stage process writes its  *)
(* output to its stdout or stderr, reads its stdin when that is a pipe, and *)
(* ends once its output is written and its input is at end-of-file; a write *)
(* to a pipe without reader kills it.  A write to a full pipe blocks.       *)
(***************************************************************************)
PipeCapacity == 1
MaxOutput == 2
MaxStages == 2

\* what the shell's standard descriptors are open on when the pipeline starts
Tty(fd) == [pipe |-> "tty", side |-> CASE fd = 0 -> "in" [] fd = 1 -> "out" [] OTHER -> "err"]
ReadEnd(p) == [pipe |-> p, side |-> "r"]
WriteEnd(p) == [pipe |-> p, side |-> "w"]

StagePipes == {"p1", "p2", "p3"}
StagePipe(i) == CASE i = 1 -> "p1" [] i = 2 -> "p2" [] OTHER -> "p3"
CapturePipes == {"cout", "cerr"}

\* nix::unistd::pipe(): the read end, then the write end, each on the lowest
\* free descriptor
make_pipe(fds, p) == open(open(fds, ReadEnd(p)).fds, WriteEnd(p)).fds

RECURSIVE pipes(_, _, _)
pipes(fds, i, n) == IF i > n THEN fds ELSE pipes(make_pipe(fds, StagePipe(i)), i + 1, n)

\* libc::dup: a copy on the lowest free descriptor
dup(fds, old) == Strict(LAMBDA t : open(t, t[old]), fds)

FdOf(fds, end) == Strict(LAMBDA t : CHOOSE fd \in DOMAIN t : t[fd] = end /\ fd > 2, fds)

\* drop of OwnedFds: every descriptor above 2 that is open on one of ps
drop(fds, ps) ==
    Strict(LAMBDA t : [fd \in {f \in DOMAIN t : f <= 2 \/ t[f].pipe \notin ps} |-> t[fd]], fds)

Holders(tables, end) ==
    {q \in DOMAIN tables : \E fd \in DOMAIN tables[q] : tables[q][fd] = end}

\* The pipelines executed: n predecessors and a final stage; n = 0 is a single
\* command or builtin in capture mode.  out[k] is what stage k writes, stream
\* the descriptor the final stage writes it to, reads whether the final stage
\* reads its stdin to the end before it exits (the predecessors do).
FlowConfigs ==
    {[n |-> n, final |-> f, capture |-> c, out |-> o, stream |-> s, reads |-> r] :
        n \in 0 .. MaxStages, f \in {"Command", "Builtin"}, c \in BOOLEAN,
        o \in [1 .. MaxStages + 1 -> 0 .. MaxOutput], s \in {1, 2}, r \in BOOLEAN}

Final(cfg) == cfg.n + 1

FlowStart ==
    /\ fl_cfg \in {cfg \in FlowConfigs :
                      /\ cfg.n = 0 => cfg.capture
                      /\ \A k \in 1 .. MaxStages + 1 : k > Final(cfg) => cfg.out[k] = 0
                      /\ cfg.final = "Builtin" => cfg.out[Final(cfg)] = 0 /\ ~cfg.reads
                      /\ cfg.n = 0 => ~cfg.reads
                      /\ cfg.stream = 2 => cfg.capture /\ cfg.final = "Command"}
    /\ fl_pc = "start"
    /\ fl_fds = [q \in {0} |-> [fd \in 0 .. 2 |-> Tty(fd)]]
    /\ fl_proc = [k \in 1 .. MaxStages + 1 |-> "unborn"]
    /\ fl_todo = fl_cfg.out
    /\ fl_eof = [k \in 1 .. MaxStages + 1 |-> FALSE]
    /\ fl_fill = [p \in StagePipes \cup CapturePipes |-> 0]
    /\ fl_saved = <<>>
    /\ fl_waited = 0
    /\ fl_at_start = <<>>

SetTable(q, table) == [p \in DOMAIN fl_fds \cup {q} |-> IF p = q THEN table ELSE fl_fds[p]]

\* run_pipeline_captured / execute_*_captured create the capture pipes, then
\* run_pipeline_internal creates every inter-stage pipe
create_pipes ==
    /\ fl_pc = "start"
    /\ LET captured == IF fl_cfg.capture THEN make_pipe(make_pipe(fl_fds[0], "cout"), "cerr")
                       ELSE fl_fds[0]
       IN  fl_fds' = SetTable(0, pipes(captured, 1, fl_cfg.n))
    /\ fl_pc' = "fork"
    /\ UNCHANGED <<fl_cfg, fl_proc, fl_todo, fl_eof, fl_fill, fl_saved, fl_waited,
                   fl_at_start>>

Forked == Cardinality({k \in 1 .. fl_cfg.n : fl_proc[k] # "unborn"})

\* the child of predecessor i, from the fork to exec_pipeline_stage
predecessor_child(fds, i) ==
    LET in == IF i > 1 THEN dup2(fds, FdOf(fds, ReadEnd(StagePipe(i - 1))), 0) ELSE fds
        out == dup2(in, FdOf(in, WriteEnd(StagePipe(i))), 1)
    IN  drop(out, StagePipes)

\* the final child, from the fork to exec_pipeline_stage (or resolve_and_exec)
final_child(fds, n, capturing) ==
    LET in == IF n > 0 THEN dup2(fds, FdOf(fds, ReadEnd(StagePipe(n))), 0) ELSE fds
        out == IF capturing
                   THEN dup2(dup2(in, FdOf(in, WriteEnd("cout")), 1),
                             FdOf(in, WriteEnd("cerr")), 2)
                   ELSE in
    IN  drop(out, StagePipes \cup CapturePipes)

\* A faulty variant: the parent keeps its pipe ends.
keep_pipes(fds, capturing) == fds

\* the parent after the last fork: drop(pipes) and the capture write ends
parent_drop(fds, capturing) ==
    LET rest == drop(fds, StagePipes)
    IN  IF capturing
            THEN close(close(rest, FdOf(rest, WriteEnd("cout"))), FdOf(rest, WriteEnd("cerr")))
            ELSE rest

spawn_predecessor ==
    /\ fl_pc = "fork"
    /\ Forked < fl_cfg.n
    /\ LET i == Forked + 1
           table == predecessor_child(fl_fds[0], i)
       IN  /\ fl_fds' = SetTable(i, table)
           /\ fl_proc' = [fl_proc EXCEPT ![i] = "running"]
           /\ fl_at_start' = [k \in DOMAIN fl_at_start \cup {i} |->
                                 IF k = i THEN table ELSE fl_at_start[k]]
    /\ UNCHANGED <<fl_cfg, fl_pc, fl_todo, fl_eof, fl_fill, fl_saved, fl_waited>>

\* the final stage is not a builtin: fork it
spawn_final ==
    /\ fl_pc = "fork"
    /\ Forked = fl_cfg.n
    /\ fl_cfg.final = "Command"
    /\ LET i == Final(fl_cfg)
           table == final_child(fl_fds[0], fl_cfg.n, fl_cfg.capture)
       IN  /\ fl_fds' = SetTable(i, table)
           /\ fl_proc' = [fl_proc EXCEPT ![i] = "running"]
           /\ fl_at_start' = [k \in DOMAIN fl_at_start \cup {i} |->
                                 IF k = i THEN table ELSE fl_at_start[k]]
    /\ fl_pc' = "forked"
    /\ UNCHANGED <<fl_cfg, fl_todo, fl_eof, fl_fill, fl_saved, fl_waited>>

drop_pipes ==
    /\ fl_pc = "forked"
    /\ fl_fds' = [fl_fds EXCEPT ![0] = parent_drop(@, fl_cfg.capture)]
    /\ fl_pc' = "wait"
    /\ UNCHANGED <<fl_cfg, fl_proc, fl_todo, fl_eof, fl_fill, fl_saved, fl_waited,
                   fl_at_start>>

\* A faulty variant: the saved copies are never closed.
restore_leaking(fds, saved) ==
    LET in == IF 0 \in DOMAIN saved THEN dup2(fds, saved[0], 0) ELSE fds
        out == IF 1 \in DOMAIN saved THEN dup2(dup2(in, saved[1], 1), saved[2], 2) ELSE in
    IN  out

\* the final builtin has returned: dup2 each saved copy back and close it
restore(fds, saved) ==
    LET in == IF 0 \in DOMAIN saved THEN close(dup2(fds, saved[0], 0), saved[0]) ELSE fds
        out == IF 1 \in DOMAIN saved
                   THEN close(close(dup2(dup2(in, saved[1], 1), saved[2], 2), saved[1]),
                              saved[2])
                   ELSE in
    IN  out

\* the final stage is a builtin: save fd 0 (in a pipeline) and fds 1, 2 (in
\* capture mode), put the last pipe on fd 0 and the capture pipes on 1 and 2,
\* drop the pipes and the capture write ends
save_and_redirect ==
    /\ fl_pc = "fork"
    /\ Forked = fl_cfg.n
    /\ fl_cfg.final = "Builtin"
    /\ LET t0 == fl_fds[0]
           s0 == IF fl_cfg.n > 0 THEN dup(t0, 0) ELSE [fd |-> -1, fds |-> t0]
           s1 == IF fl_cfg.capture THEN dup(s0.fds, 1) ELSE [fd |-> -1, fds |-> s0.fds]
           s2 == IF fl_cfg.capture THEN dup(s1.fds, 2) ELSE [fd |-> -1, fds |-> s1.fds]
           in == IF fl_cfg.n > 0
                     THEN dup2(s2.fds, FdOf(s2.fds, ReadEnd(StagePipe(fl_cfg.n))), 0)
                     ELSE s2.fds
           out == IF fl_cfg.capture
                      THEN dup2(dup2(in, FdOf(in, WriteEnd("cout")), 1),
                                FdOf(in, WriteEnd("cerr")), 2)
                      ELSE in
       IN  /\ fl_fds' = [fl_fds EXCEPT ![0] = parent_drop(out, fl_cfg.capture)]
           /\ fl_saved' = [fd \in (IF fl_cfg.n > 0 THEN {0} ELSE {})
                                      \cup (IF fl_cfg.capture THEN {1, 2} ELSE {}) |->
                              CASE fd = 0 -> s0.fd [] fd = 1 -> s1.fd [] fd = 2 -> s2.fd]
    /\ fl_pc' = "wait"
    /\ UNCHANGED <<fl_cfg, fl_proc, fl_todo, fl_eof, fl_fill, fl_waited, fl_at_start>>

\* waitpid(child_pid, None) for the next predecessor: it returns once that
\* child has ended
reap_predecessor ==
    /\ fl_pc = "wait"
    /\ fl_waited < fl_cfg.n
    /\ fl_proc[fl_waited + 1] = "zombie"
    /\ fl_proc' = [fl_proc EXCEPT ![fl_waited + 1] = "reaped"]
    /\ fl_waited' = fl_waited + 1
    /\ UNCHANGED <<fl_cfg, fl_pc, fl_fds, fl_todo, fl_eof, fl_fill, fl_saved, fl_at_start>>

\* waitpid(last_child, None), then the ShellResult
reap_final ==
    /\ fl_pc = "wait"
    /\ fl_cfg.final = "Command"
    /\ fl_waited = fl_cfg.n
    /\ fl_proc[Final(fl_cfg)] = "zombie"
    /\ fl_proc' = [fl_proc EXCEPT ![Final(fl_cfg)] = "reaped"]
    /\ fl_pc' = "returned"
    /\ UNCHANGED <<fl_cfg, fl_fds, fl_todo, fl_eof, fl_fill, fl_saved, fl_waited,
                   fl_at_start>>

\* func(args) in the shell process, then the restore, then the ShellResult
builtin_and_restore ==
    /\ fl_pc = "wait"
    /\ fl_cfg.final = "Builtin"
    /\ fl_waited = fl_cfg.n
    /\ fl_fds' = [fl_fds EXCEPT ![0] = restore(@, fl_saved)]
    /\ fl_pc' = "returned"
    /\ UNCHANGED <<fl_cfg, fl_proc, fl_todo, fl_eof, fl_fill, fl_saved, fl_waited,
                   fl_at_start>>

Stream(k) == IF k = Final(fl_cfg) THEN fl_cfg.stream ELSE 1
Reads(k) == fl_fds[k][0].pipe # "tty" /\ (k = Final(fl_cfg) => fl_cfg.reads)

\* a running stage writes one byte
stage_write(k) ==
    /\ fl_proc[k] = "running"
    /\ fl_todo[k] > 0
    /\ LET end == fl_fds[k][Stream(k)]
       IN  IF end.pipe = "tty"
               THEN /\ fl_todo' = [fl_todo EXCEPT ![k] = @ - 1]
                    /\ UNCHANGED <<fl_fill, fl_proc, fl_fds>>
               ELSE IF Holders(fl_fds, ReadEnd(end.pipe)) = {}
                   THEN \* SIGPIPE
                        /\ fl_proc' = [fl_proc EXCEPT ![k] = "zombie"]
                        /\ fl_fds' = [q \in DOMAIN fl_fds \ {k} |-> fl_fds[q]]
                        /\ UNCHANGED <<fl_fill, fl_todo>>
                   ELSE /\ fl_fill[end.pipe] < PipeCapacity
                        /\ fl_fill' = [fl_fill EXCEPT ![end.pipe] = @ + 1]
                        /\ fl_todo' = [fl_todo EXCEPT ![k] = @ - 1]
                        /\ UNCHANGED <<fl_proc, fl_fds>>
    /\ UNCHANGED <<fl_cfg, fl_pc, fl_eof, fl_saved, fl_waited, fl_at_start>>

\* a running stage reads its stdin, a pipe: a byte, or end-of-file when the
\* pipe is empty and no process holds its write end
stage_read(k) ==
    /\ fl_proc[k] = "running"
    /\ Reads(k)
    /\ ~fl_eof[k]
    /\ LET p == fl_fds[k][0].pipe
       IN  IF fl_fill[p] > 0
               THEN /\ fl_fill' = [fl_fill EXCEPT ![p] = @ - 1]
                    /\ UNCHANGED fl_eof
               ELSE /\ Holders(fl_fds, WriteEnd(p)) = {}
                    /\ fl_eof' = [fl_eof EXCEPT ![k] = TRUE]
                    /\ UNCHANGED fl_fill
    /\ UNCHANGED <<fl_cfg, fl_pc, fl_fds, fl_proc, fl_todo, fl_saved, fl_waited,
                   fl_at_start>>

\* a stage ends: its output is written and its input, if a pipe, is at
\* end-of-file; its descriptors are closed
stage_exit(k) ==
    /\ fl_proc[k] = "running"
    /\ fl_todo[k] = 0
    /\ Reads(k) => fl_eof[k]
    /\ fl_proc' = [fl_proc EXCEPT ![k] = "zombie"]
    /\ fl_fds' = [q \in DOMAIN fl_fds \ {k} |-> fl_fds[q]]
    /\ UNCHANGED <<fl_cfg, fl_pc, fl_todo, fl_eof, fl_fill, fl_saved, fl_waited,
                   fl_at_start>>


(***************************************************************************)
(* The REPL loop (main.rs, repl.rs) and execute_repl_line (bindings.rs).   *)
(* A line is what Python makes of it: an expression whose value is a        *)
(* Runnable, another value or None, a simple statement, the head of a       *)
(* compound statement, an indented line, or a blank line.                   *)
(***************************************************************************)
MaxReads == 3

Lines == {"ls", "1 + 1", "None", "boom()", "x = 1", "if x:", "    ls", ""}

ReplExitCodes == {0, 3, 255}

Event(ev, arg) == [ev |-> ev, arg |-> arg]

\* buffer.trim().is_empty()
blank(buf) == \A i \in 1 .. Len(buf) : buf[i] = ""

\* codeop.compile_command(code): None while a compound statement is open,
\* a code object or a SyntaxError otherwise
is_complete_statement(buf) ==
    IF buf = <<>> THEN TRUE
    ELSE IF buf[1] = "if x:" THEN Len(buf) >= 2 /\ buf[Len(buf)] = ""
    ELSE TRUE

\* The code compiles as one expression: py.eval then evaluates it, with all
\* its effects, before it returns a value or the error the evaluation raised.
is_expression(buf) ==
    LET code == SelectSeq(buf, LAMBDA l : l # "")
    IN  Len(code) = 1 /\ Len(buf) = 1 /\ code[1] \in {"ls", "1 + 1", "None", "boom()"}

\* py.eval(code): the value of an expression, or an error: a SyntaxError for
\* anything that is not one expression, or what the evaluation raised (boom()
\* acts and then raises)
eval(buf) ==
    LET code == SelectSeq(buf, LAMBDA l : l # "")
    IN  IF ~is_expression(buf) THEN [t |-> "Err"]
        ELSE CASE code[1] = "ls" -> [t |-> "ShipRunnable"]
               [] code[1] = "1 + 1" -> [t |-> "Value"]
               [] code[1] = "None" -> [t |-> "None"]
               [] OTHER -> [t |-> "Err"]

\* A faulty variant: the result of the call is printed whatever its exit code.
print_exit_code_always(status_code) == <<Event("println", <<"Exit code: ", status_code>>)>>

\* println!("Exit code: {}") when the exit code is not zero
print_exit_code(status_code) ==
    IF status_code # 0 THEN <<Event("println", <<"Exit code: ", status_code>>)>> ELSE <<>>

\* execute_repl_line: what it does, in order, when the call of a Runnable
\* yields the exit code status_code
execute_repl_line(buf, status_code) ==
    LET result == eval(buf)
    IN  <<Event("eval", buf)>> \o
        CASE result.t = "ShipRunnable" -> <<Event("call0", status_code)>>
                                              \o print_exit_code(status_code)
          [] result.t = "Value" -> <<Event("println", <<"repr", buf>>)>>
          [] result.t = "None" -> <<>>
          [] OTHER -> <<Event("run", buf)>>

\* The executor returns an error: what py.run raised (boom() raises each time
\* it is evaluated); the loop reports it and goes on
report_error(buf) ==
    IF is_expression(buf) /\ eval(buf).t = "Err"
        THEN <<Event("eprintln", <<"Error executing code">>)>>
        ELSE <<>>

\* A faulty variant: Ctrl-C leaves the buffer as it is.
keep(buf) == buf

\* buffer.clear()
clear(buf) == <<>>

ReplStart ==
    /\ rp_loop \in {"main", "repl"}
    /\ rp_pc = "top"
    /\ rp_buffer = <<>>
    /\ rp_continuation = FALSE
    /\ rp_reads = 0
    /\ rp_log = <<>>

Hook(kind, arg) == IF rp_loop = "repl" THEN <<Event(kind, arg)>> ELSE <<>>

\* the top of the loop up to read_line: is_continuation, the hooks, the prompt
show_prompt ==
    /\ rp_pc = "top"
    /\ rp_continuation' = (rp_buffer # <<>>)
    /\ rp_log' = rp_log \o (IF rp_buffer # <<>> THEN Hook("before_continuation", rp_buffer)
                            ELSE Hook("before_prompt", <<>>))
                        \o <<Event("prompt", IF rp_buffer # <<>> THEN "continuation" ELSE "primary")>>
    /\ rp_pc' = "read"
    /\ UNCHANGED <<rp_loop, rp_buffer, rp_reads>>

\* Signal::Success(line)
read_success(line, status_code) ==
    /\ rp_pc = "read"
    /\ rp_reads < MaxReads
    /\ LET buf == Append(rp_buffer, line)
       IN  IF is_complete_statement(buf)
               THEN /\ rp_log' = rp_log \o <<Event("line", line)>> \o
                                    (IF ~blank(buf)
                                         THEN Hook("before_execute", buf)
                                                  \o execute_repl_line(buf, status_code)
                                                  \o report_error(buf)
                                                  \o Hook("after_execute", buf)
                                         ELSE <<>>)
                    /\ rp_buffer' = clear(buf)
               ELSE /\ rp_log' = Append(rp_log, Event("line", line))
                    /\ rp_buffer' = buf
    /\ rp_reads' = rp_reads + 1
    /\ rp_pc' = "top"
    /\ UNCHANGED <<rp_loop, rp_continuation>>

\* Signal::CtrlC
read_ctrl_c ==
    /\ rp_pc = "read"
    /\ rp_reads < MaxReads
    /\ rp_log' = Append(rp_log, Event("println", <<"^C">>))
    /\ rp_buffer' = clear(rp_buffer)
    /\ rp_reads' = rp_reads + 1
    /\ rp_pc' = "top"
    /\ UNCHANGED <<rp_loop, rp_continuation>>

\* Signal::CtrlD, or an error of read_line
read_ctrl_d ==
    /\ rp_pc = "read"
    /\ rp_log' = Append(rp_log, Event("println", <<"Exiting...">>))
    /\ rp_pc' = "exited"
    /\ UNCHANGED <<rp_loop, rp_buffer, rp_continuation, rp_reads>>


(***************************************************************************)
(* The lock discipline of the environment store (SHELL_ENV, one RwLock).   *)
(* Every operation is the sequence of its lock acquisitions, releases and  *)
(* forks in program order; "work" is a step that touches neither.  A       *)
(* forked child runs with a copy of the lock in the state it had at the    *)
(* fork while its parent sits in waitpid, so its steps are taken in line.  *)
(***************************************************************************)
MaxLockCalls == 2

LockIdle ==
    /\ lk_todo = <<>>
    /\ lk_lock = "free"
    /\ lk_pc = "idle"
    /\ lk_fork_lock = "none"
    /\ lk_calls = 0

\* get_var (contains_var, var_count, all_var_keys, all_vars alike): a read
\* guard that lives to the end of the function
get_var_steps == <<"read", "release">>

\* set_var, unset_var, set_last_exit: a write guard to the end of the function
set_var_steps == <<"write", "release">>

\* initialize: one write guard over from_parent and every default
initialize_steps == <<"write", "work", "release">>

\* cd: the target (HOME, OLDPWD and ~ ask get_var; a plain path does not),
\* current_dir, set_current_dir, current_dir, then the write guard for
\* OLDPWD and PWD.  outcome: "unset" (the variable is missing), "failed"
\* (a directory call fails), "ok".
cd_steps(form, outcome) ==
    (IF form = "path" THEN <<>> ELSE get_var_steps)
        \o (IF outcome = "unset" /\ form # "path" THEN <<>>
            ELSE IF outcome = "failed" THEN <<"work">>
            ELSE <<"work", "write", "release">>)

\* pwd: -P asks the system; otherwise a read guard held over the whole match,
\* the current_dir fallback included
pwd_steps(physical) ==
    IF physical THEN <<"work">> ELSE <<"read", "work", "release">>

\* pushd with the guard kept over the call of cd
pushd_steps_holding(form, outcome) ==
    IF form = "none" THEN <<>>
    ELSE <<"work", "write">> \o cd_steps(form, outcome) \o <<"release">>

\* pushd: current_dir, the write guard for push_dir, drop(env_write), cd
pushd_steps(form, outcome) ==
    IF form = "none" THEN <<>>
    ELSE <<"work", "write", "release">> \o cd_steps(form, outcome)

\* popd: the write guard for pop_dir; an empty stack returns and drops the
\* guard on the way out, otherwise drop(env_write) and cd to the popped path
popd_steps(form, outcome) ==
    IF form = "args" THEN <<>>
    ELSE IF form = "empty" THEN <<"write", "release">>
    ELSE <<"write", "release">> \o cd_steps("path", outcome)

\* dirs: current_dir, then a read guard over the printing loop
dirs_steps == <<"work", "read", "release">>

\* which: per program the registry lookup, then find_in_path (get_var PATH
\* and the directory scan) unless a builtin was found and -a is absent
which_steps(is_builtin, show_all) ==
    <<"work">> \o (IF is_builtin /\ ~show_all THEN <<>> ELSE get_var_steps \o <<"work">>)

LockForms == {"none", "path", "home", "dash"}
LockOutcomes == {"unset", "failed", "ok"}

BuiltinCalls ==
    [name : {"cd"}, form : LockForms, outcome : LockOutcomes]
        \cup [name : {"pushd"}, form : {"none", "path", "dash"}, outcome : LockOutcomes]
        \cup [name : {"popd"}, form : {"args", "empty", "path"}, outcome : {"failed", "ok"}]
        \cup [name : {"pwd"}, form : {"-P", "-L"}, outcome : {"ok"}]
        \cup [name : {"dirs"}, form : {"none"}, outcome : {"ok"}]
        \cup [name : {"which"}, form : {"builtin", "all", "program"}, outcome : {"ok"}]

builtin_steps(b) ==
    CASE b.name = "cd" -> cd_steps(b.form, b.outcome)
      [] b.name = "pushd" -> pushd_steps(b.form, b.outcome)
      [] b.name = "popd" -> popd_steps(b.form, b.outcome)
      [] b.name = "pwd" -> pwd_steps(b.form = "-P")
      [] b.name = "dirs" -> dirs_steps
      [] b.name = "which" -> which_steps(b.form # "program", b.form = "all")

\* resolve_and_exec in a child: resolve_program_path asks get_var("PATH"),
\* then a read guard for to_envp that execve ends
resolve_and_exec_steps == get_var_steps \o <<"read", "work">>

\* The command specs the lock model runs: a leaf, or one wrapper over a leaf,
\* or WithEnv over a forking wrapper.
LockLeaves ==
    [t : {"Command"}] \cup [t : {"Builtin"}, call : BuiltinCalls]
LockWrapped ==
    [t : {"WithEnv", "Subshell", "Redirect", "Pipeline"}, inner : LockLeaves]
LockSpecs ==
    LockLeaves \cup LockWrapped \cup [t : {"WithEnv"}, inner : [t : {"Subshell", "Pipeline"}, inner : LockLeaves]]

\* A child's steps leave the parent's lock as it was: the child's copy of the
\* lock dies with the child.
RECURSIVE spec_steps(_)
child_steps(spec) ==
    IF spec.t = "Command" THEN resolve_and_exec_steps ELSE spec_steps(spec)

\* execute_command_spec: fork_and_run for Command, Subshell and Redirect, the
\* builtin in the shell process, run_pipeline (one predecessor child, then the
\* final stage: a child, or the builtin in the shell process), and
\* execute_with_env with its three guards in three blocks
spec_steps(spec) ==
    CASE spec.t = "Command" -> <<"fork">> \o resolve_and_exec_steps \o <<"exit", "wait">>
      [] spec.t = "Builtin" -> builtin_steps(spec.call)
      [] spec.t \in {"Subshell", "Redirect"} ->
             <<"fork">> \o child_steps(spec.inner) \o <<"exit", "wait">>
      [] spec.t = "Pipeline" ->
             <<"fork">> \o resolve_and_exec_steps \o <<"exit">>
                 \o (IF spec.inner.t = "Builtin"
                         THEN <<"wait">> \o builtin_steps(spec.inner.call)
                         ELSE <<"fork">> \o child_steps(spec.inner) \o <<"exit", "wait", "wait">>)
      [] spec.t = "WithEnv" ->
             <<"read", "release", "write", "release">> \o spec_steps(spec.inner)
                 \o <<"write", "release">>

\* execute: lower, execute_command_spec, set_last_exit
execute_steps(spec) == spec_steps(spec) \o set_var_steps

LockOps ==
    [op : {"get_var", "set_var", "unset_var", "initialize"}]
        \cup [op : {"builtin"}, call : BuiltinCalls]
        \cup [op : {"execute"}, spec : LockSpecs]

op_steps(o) ==
    CASE o.op = "get_var" -> get_var_steps
      [] o.op \in {"set_var", "unset_var"} -> set_var_steps
      [] o.op = "initialize" -> initialize_steps
      [] o.op = "builtin" -> builtin_steps(o.call)
      [] o.op = "execute" -> execute_steps(o.spec)

\* An operation is called from the interpreter.
lock_call(o) ==
    /\ lk_pc = "idle"
    /\ lk_calls < MaxLockCalls
    /\ lk_calls' = lk_calls + 1
    /\ lk_todo' = op_steps(o)
    /\ lk_pc' = IF op_steps(o) = <<>> THEN "idle" ELSE "running"
    /\ UNCHANGED <<lk_lock, lk_fork_lock>>

\* RwLock::read / RwLock::write: granted when the lock is free; a thread that
\* already holds a guard waits for itself (or panics, as the library chooses)
lock_acquire ==
    /\ lk_pc = "running"
    /\ Head(lk_todo) \in {"read", "write"}
    /\ IF lk_lock = "free"
           THEN /\ lk_lock' = Head(lk_todo)
                /\ lk_todo' = Tail(lk_todo)
                /\ lk_pc' = IF Tail(lk_todo) = <<>> THEN "idle" ELSE "running"
           ELSE /\ lk_pc' = "blocked"
                /\ UNCHANGED <<lk_lock, lk_todo>>
    /\ UNCHANGED <<lk_fork_lock, lk_calls>>

\* The guard goes out of scope or is dropped; the exit of a child (or its
\* execve) discards the child's copy of the lock with whatever it held.
lock_release ==
    /\ lk_pc = "running"
    /\ Head(lk_todo) \in {"release", "exit"}
    /\ lk_lock' = IF Head(lk_todo) = "exit" THEN lk_fork_lock ELSE "free"
    /\ lk_todo' = Tail(lk_todo)
    /\ lk_pc' = IF Tail(lk_todo) = <<>> THEN "idle" ELSE "running"
    /\ UNCHANGED <<lk_fork_lock, lk_calls>>

\* fork: the child starts with the lock in the state the parent has it in
lock_fork ==
    /\ lk_pc = "running"
    /\ Head(lk_todo) = "fork"
    /\ lk_fork_lock' = lk_lock
    /\ lk_todo' = Tail(lk_todo)
    /\ lk_pc' = "running"
    /\ UNCHANGED <<lk_lock, lk_calls>>

\* A step that touches neither the lock nor the process table of interest:
\* a directory call, a scan, a waitpid.
lock_work ==
    /\ lk_pc = "running"
    /\ Head(lk_todo) \in {"work", "wait"}
    /\ lk_todo' = Tail(lk_todo)
    /\ lk_pc' = IF Tail(lk_todo) = <<>> THEN "idle" ELSE "running"
    /\ UNCHANGED <<lk_lock, lk_fork_lock, lk_calls>>


(***************************************************************************)
(* The panics of lowering and of the pipeline stages.  spec_panics follows *)
(* execute_command_spec through a lowered spec; stage_panics follows       *)
(* exec_pipeline_stage, which every predecessor and every final stage that *)
(* is not a builtin is handed to.                                          *)
(***************************************************************************)
RECURSIVE spec_panics(_)
stage_panics(stage) ==
    CASE stage.t = "Pipeline" -> TRUE
      [] stage.t = "Subshell" -> spec_panics(stage.runnable)
      [] OTHER -> spec_panics(stage)

spec_panics(spec) ==
    CASE spec.t = "panic" -> TRUE
      [] spec.t \in {"Command", "Builtin"} -> FALSE
      [] spec.t \in {"Subshell", "Redirect", "WithEnv"} -> spec_panics(spec.runnable)
      [] spec.t = "Pipeline" ->
            \/ \E i \in DOMAIN spec.predecessors : stage_panics(spec.predecessors[i])
            \/ spec.final_cmd.t # "Builtin" /\ stage_panics(spec.final_cmd)

(***************************************************************************)
(* The specifications.                                                     *)
(***************************************************************************)
\* The parts of the state a specification leaves alone start, and stay, idle.
ReplIdle ==
    /\ rp_loop = "none"
    /\ rp_pc = "idle"
    /\ rp_buffer = <<>>
    /\ rp_continuation = FALSE
    /\ rp_reads = 0
    /\ rp_log = <<>>

FlowIdle ==
    /\ fl_cfg = <<>>
    /\ fl_pc = "idle"
    /\ fl_fds = <<>>
    /\ fl_proc = <<>>
    /\ fl_todo = <<>>
    /\ fl_eof = <<>>
    /\ fl_fill = <<>>
    /\ fl_saved = <<>>
    /\ fl_waited = 0
    /\ fl_at_start = <<>>

CallIdle ==
    /\ disk = <<>>
    /\ calls = <<>>

PipeIdle ==
    /\ num_pipes = 1
    /\ final_stage = "Command"
    /\ capture = FALSE
    /\ pc = "idle"
    /\ child_pids = <<>>
    /\ last_child = 0
    /\ procs = <<>>
    /\ exit_order = <<>>
    /\ builtin_ret = -1
    /\ pipeline_exit = -1

WaitIdle ==
    /\ wait_mode = "normal"
    /\ wait_pc = "idle"
    /\ wait_child = Running
    /\ wait_result = NoWaitResult

ParseIdle ==
    /\ rt_value = None
    /\ rt_text = <<>>
    /\ rt_parsed = None
    /\ rt_pc = "idle"

ResolveIdle ==
    /\ files = <<>>
    /\ run_program = <<>>
    /\ resolved = NoResolution

AlgInit == AlgStart /\ EnvStart /\ PipeIdle /\ WaitIdle /\ ParseIdle /\ ResolveIdle /\ HooksStart /\ CallIdle /\ FlowIdle /\ ReplIdle /\ LockIdle
AlgNext ==
    \/ UNCHANGED exceptAlg /\ \E p \in ProgNames, a \in ArgLists : cmd(p, a)
    \/ UNCHANGED exceptAlg /\ \E r \in live : sub(r)
    \/ UNCHANGED exceptAlg /\ \E a \in live, b \in live : or(a, b)
    \/ UNCHANGED exceptAlg
          /\ \E a \in live, b \in live, cs \in SeqsUpTo(live, MaxRest) : pipe(a, b, cs)
    \/ UNCHANGED exceptAlg /\ \E r \in live, tg \in RedirectTargets : gt(r, tg)
    \/ UNCHANGED exceptAlg /\ \E r \in live, tg \in RedirectTargets : rshift(r, tg)
    \/ UNCHANGED exceptAlg /\ \E r \in live, kw \in KwargSets : with_env(r, kw)
    \/ UNCHANGED exceptAlg /\ \E r \in live : with_env_none(r)
SpecAlgebra == AlgInit /\ [][AlgNext]_vars

EnvInit == EnvStart /\ AlgStart /\ PipeIdle /\ WaitIdle /\ ParseIdle /\ ResolveIdle /\ HooksStart /\ CallIdle /\ FlowIdle /\ ReplIdle /\ LockIdle
EnvNext ==
    \/ UNCHANGED exceptEnv /\ \E k \in SetKeys, v \in SetValues : set_var(k, v)
    \/ UNCHANGED exceptEnv /\ \E k \in SetKeys : unset_var(k)
    \/ UNCHANGED exceptEnv /\ \E x \in Requests, oc \in Oracles : execute(x, oc)
SpecEnv == EnvInit /\ [][EnvNext]_vars

PipeInit == PipeStart /\ AlgStart /\ EnvStart /\ WaitIdle /\ ParseIdle /\ ResolveIdle /\ HooksStart /\ CallIdle /\ FlowIdle /\ ReplIdle /\ LockIdle
PipeNext ==
    \/ UNCHANGED exceptPipe /\ fork_predecessor
    \/ UNCHANGED exceptPipe /\ prepare_builtin
    \/ UNCHANGED exceptPipe /\ fork_final
    \/ UNCHANGED exceptPipe
          /\ \E pid \in DOMAIN procs, status \in PipeStatuses : child_terminates(pid, status)
    \/ UNCHANGED exceptPipe /\ wait_predecessor
    \/ UNCHANGED exceptPipe /\ \E ret \in BuiltinReturns : run_final_builtin(ret)
    \/ UNCHANGED exceptPipe /\ final_builtin_exits
    \/ UNCHANGED exceptPipe /\ wait_last_child
SpecPipe == PipeInit /\ [][PipeNext]_vars

WaitInit == WaitStart /\ AlgStart /\ EnvStart /\ PipeIdle /\ ParseIdle /\ ResolveIdle /\ HooksStart /\ CallIdle /\ FlowIdle /\ ReplIdle /\ LockIdle
WaitNext ==
    \/ UNCHANGED exceptWait /\ fork_child
    \/ UNCHANGED exceptWait
          /\ \E status \in WaitStatuses : wait_child_terminates(status)
    \/ UNCHANGED exceptWait /\ wait_normal
    \/ UNCHANGED exceptWait /\ wait_captured
SpecWait == WaitInit /\ [][WaitNext]_vars

InheritInit == InheritStart /\ AlgStart /\ PipeIdle /\ WaitIdle /\ ParseIdle /\ ResolveIdle /\ HooksStart /\ CallIdle /\ FlowIdle /\ ReplIdle /\ LockIdle
InheritNext ==
    \/ UNCHANGED exceptEnv
          /\ \E k \in TextSetKeys, v \in TextSetValues : set_var(k, v)
    \/ UNCHANGED exceptEnv /\ \E k \in TextSetKeys : unset_var(k)
    \/ UNCHANGED exceptEnv
          /\ \E x \in TextRequests, oc \in TextOracles : execute(x, oc)
SpecInherit == InheritInit /\ [][InheritNext]_vars

ParseInit == ParseStart /\ AlgStart /\ EnvStart /\ PipeIdle /\ WaitIdle /\ ResolveIdle /\ HooksStart /\ CallIdle /\ FlowIdle /\ ReplIdle /\ LockIdle
ParseNext ==
    \/ UNCHANGED exceptParse /\ project
    \/ UNCHANGED exceptParse /\ parse
SpecParse == ParseInit /\ [][ParseNext]_vars

ResolveInit == ResolveStart /\ AlgStart /\ PipeIdle /\ WaitIdle /\ ParseIdle /\ HooksStart /\ CallIdle /\ FlowIdle /\ ReplIdle /\ LockIdle
ResolveNext ==
    \/ UNCHANGED <<exceptResolve, resolveVars>> /\ \E v \in PathValues : set_var("PATH", v)
    \/ UNCHANGED <<exceptResolve, resolveVars>> /\ unset_var("PATH")
    \/ UNCHANGED exceptResolve
          /\ \E name \in ProgramNames, ran \in ExecOutcomes : run_command(name, ran)
SpecResolve == ResolveInit /\ [][ResolveNext]_vars

WhichNext ==
    \/ UNCHANGED <<exceptResolve, resolveVars>> /\ \E v \in PathValues : set_var("PATH", v)
    \/ UNCHANGED <<exceptResolve, resolveVars>> /\ unset_var("PATH")
    \/ UNCHANGED exceptResolve /\ \E args \in WhichArgs : run_which(args)
SpecWhich == ResolveInit /\ [][WhichNext]_vars

DirsInit ==
    CdStart /\ AlgStart /\ PipeIdle /\ WaitIdle /\ ParseIdle /\ ResolveIdle /\ HooksStart
        /\ CallIdle /\ FlowIdle /\ ReplIdle /\ LockIdle
DirsNext ==
    \/ UNCHANGED exceptEnv
          /\ \E name \in {"cd", "pushd", "popd"}, args \in CdArgs : call_builtin(name, args)
SpecDirs == DirsInit /\ [][DirsNext]_vars

LockInit ==
    LockIdle /\ AlgStart /\ EnvStart /\ PipeIdle /\ WaitIdle /\ ParseIdle /\ ResolveIdle
        /\ HooksStart /\ CallIdle /\ FlowIdle /\ ReplIdle
LockNext ==
    \/ UNCHANGED exceptLock /\ \E o \in LockOps : lock_call(o)
    \/ UNCHANGED exceptLock /\ lock_acquire
    \/ UNCHANGED exceptLock /\ lock_release
    \/ UNCHANGED exceptLock /\ lock_fork
    \/ UNCHANGED exceptLock /\ lock_work
SpecLock == LockInit /\ [][LockNext]_vars

CdInit ==
    CdStart /\ AlgStart /\ PipeIdle /\ WaitIdle /\ ParseIdle /\ ResolveIdle /\ HooksStart /\ LockIdle
        /\ CallIdle /\ FlowIdle /\ ReplIdle
CdNext ==
    \/ UNCHANGED exceptEnv /\ \E args \in CdArgs : call_cd(args)
SpecCd == CdInit /\ [][CdNext]_vars

ReplInit ==
    ReplStart /\ AlgStart /\ EnvStart /\ PipeIdle /\ WaitIdle /\ ParseIdle /\ ResolveIdle /\ LockIdle
        /\ HooksStart /\ CallIdle /\ FlowIdle
ReplNext ==
    \/ UNCHANGED exceptRepl /\ show_prompt
    \/ UNCHANGED exceptRepl /\ \E line \in Lines, status_code \in ReplExitCodes :
                                    read_success(line, status_code)
    \/ UNCHANGED exceptRepl /\ read_ctrl_c
    \/ UNCHANGED exceptRepl /\ read_ctrl_d
SpecRepl == ReplInit /\ [][ReplNext]_vars

\* The loop goes on to its next read_line.
SpecReplFair == SpecRepl /\ WF_replVars(show_prompt)

FlowInit ==
    FlowStart /\ AlgStart /\ EnvStart /\ PipeIdle /\ WaitIdle /\ ParseIdle /\ ResolveIdle /\ ReplIdle /\ LockIdle
        /\ HooksStart /\ CallIdle
FlowNext ==
    \/ UNCHANGED exceptFlow /\ create_pipes
    \/ UNCHANGED exceptFlow /\ spawn_predecessor
    \/ UNCHANGED exceptFlow /\ spawn_final
    \/ UNCHANGED exceptFlow /\ drop_pipes
    \/ UNCHANGED exceptFlow /\ save_and_redirect
    \/ UNCHANGED exceptFlow /\ reap_predecessor
    \/ UNCHANGED exceptFlow /\ reap_final
    \/ UNCHANGED exceptFlow /\ builtin_and_restore
    \/ UNCHANGED exceptFlow /\ \E k \in 1 .. MaxStages + 1 : stage_write(k)
    \/ UNCHANGED exceptFlow /\ \E k \in 1 .. MaxStages + 1 : stage_read(k)
    \/ UNCHANGED exceptFlow /\ \E k \in 1 .. MaxStages + 1 : stage_exit(k)
SpecFlow == FlowInit /\ [][FlowNext]_vars

\* Every process that can take a step takes one.
FlowStep ==
    \/ create_pipes \/ spawn_predecessor \/ spawn_final \/ drop_pipes \/ save_and_redirect
    \/ reap_predecessor \/ reap_final \/ builtin_and_restore
    \/ \E k \in 1 .. MaxStages + 1 : stage_write(k) \/ stage_read(k) \/ stage_exit(k)
SpecFlowFair == SpecFlow /\ WF_flowVars(FlowStep)

CallInit ==
    CallStart /\ AlgStart /\ EnvStart /\ PipeIdle /\ WaitIdle /\ ParseIdle /\ ResolveIdle /\ FlowIdle /\ ReplIdle /\ LockIdle
        /\ HooksStart
CallNext ==
    \/ UNCHANGED <<exceptCall, envVars, callVars>>
          /\ \E p \in ProgNames, a \in ArgLists : cmd(p, a)
    \/ UNCHANGED <<exceptCall, envVars, callVars>>
          /\ \E r \in live, tg \in RedirectTargets : gt(r, tg)
    \/ UNCHANGED exceptCall /\ \E fd \in FileNos : py_close(fd)
    \/ UNCHANGED exceptCall /\ \E r \in live, oc \in CallOracles : call_runnable(r, oc)
SpecCall == CallInit /\ [][CallNext]_vars

RedirectNext ==
    \/ UNCHANGED <<exceptCall, envVars, callVars>>
          /\ \E p \in ProgNames, a \in ArgLists : cmd(p, a)
    \/ UNCHANGED <<exceptCall, envVars, callVars>>
          /\ \E r \in live, tg \in RedirectTargets : gt(r, tg)
    \/ UNCHANGED exceptCall /\ \E fd \in FileNos : py_close(fd)
    \/ UNCHANGED exceptCall /\ \E r \in live, oc \in RedirectOracles : call_redirect(r, oc)
SpecRedirect == CallInit /\ [][RedirectNext]_vars

HooksInit ==
    HooksStart /\ AlgStart /\ EnvStart /\ PipeIdle /\ WaitIdle /\ ParseIdle /\ ResolveIdle /\ CallIdle /\ FlowIdle /\ ReplIdle /\ LockIdle
HooksNext ==
    \/ UNCHANGED exceptHooks /\ \E k \in Kinds, cb \in Callbacks : on(k, cb)
    \/ UNCHANGED exceptHooks /\ \E k \in Kinds, id \in HookIds : off(k, id)
    \/ UNCHANGED exceptHooks /\ \E k \in Kinds : fire(k)
    \/ UNCHANGED exceptHooks /\ invoke
    \/ UNCHANGED exceptHooks /\ fire_return
SpecHooks == HooksInit /\ [][HooksNext]_vars

\* The firing loop is sequential code: once started it takes its next turn.
SpecHooksFair ==
    /\ SpecHooks
    /\ WF_vars(UNCHANGED exceptHooks /\ invoke)
    /\ WF_vars(UNCHANGED exceptHooks /\ fire_return)

(***************************************************************************)
(* The laws of the command algebra.                                        *)
(***************************************************************************)
\* The stage sequence of an object: a Pipeline's predecessors and final_cmd,
\* any other runnable alone.
Stages(h, id) ==
    IF h[id].t = "Pipeline" THEN Append(h[id].predecessors, h[id].final_cmd) ELSE <<id>>

StageTrees(h, id) == [i \in 1 .. Len(Stages(h, id)) |-> Tree(h, Stages(h, id)[i])]

NonRedirect == {id \in live : heap[id].t # "Redirect"}

\* The tree of a | b, of (a | b) | c and of a | (b | c), each built by __or__
\* on the current heap.
OrTree(h, a, b) == Tree(Append(h, OrResult(h, a, b).node), Len(h) + 1)

LeftAssoc(h, a, b, c) ==
    LET h1 == Append(h, OrResult(h, a, b).node)
    IN  OrTree(h1, Len(h1), c)

RightAssoc(h, a, b, c) ==
    LET h1 == Append(h, OrResult(h, b, c).node)
    IN  OrTree(h1, a, Len(h1))

\* C1: pipeline flatness.  No Pipeline object, handed out or intermediate, has a
\* Pipeline among its predecessors or as its final_cmd.
C1_PipelineFlat ==
    \A id \in DOMAIN heap :
        heap[id].t = "Pipeline" =>
            /\ heap[heap[id].final_cmd].t # "Pipeline"
            /\ \A i \in DOMAIN heap[id].predecessors :
                    heap[heap[id].predecessors[i]].t # "Pipeline"

\* A pipeline has been composed from an operand that is itself a Pipeline.
C1_Witness ==
    /\ last.op \in {"or", "pipe"}
    /\ last.err = ""
    /\ \E i \in DOMAIN last.args : heap[last.args[i]].t = "Pipeline"
    /\ heap[last.res].t = "Pipeline"

\* C2: pipe associativity.  For all non-Redirect operands a, b, c the trees of
\* (a | b) | c and a | (b | c) are equal.
C2_PipeAssociative ==
    \A a \in NonRedirect, b \in NonRedirect, c \in NonRedirect :
        LeftAssoc(heap, a, b, c) = RightAssoc(heap, a, b, c)

\* (a | b) | c has been built by two | calls with c itself a Pipeline, and it
\* is the tree of a | (b | c).
C2_Witness ==
    /\ last.op = "or"
    /\ last.err = ""
    /\ heap[last.args[2]].t = "Pipeline"
    /\ \E a \in live, b \in live :
            /\ IsAtomic(heap[a]) /\ IsAtomic(heap[b])
            /\ heap[last.args[1]] = OrResult(heap, a, b).node
            /\ Tree(heap, last.res) = RightAssoc(heap, a, b, last.args[2])
            /\ Len(Stages(heap, last.res)) = 4

\* C3 as stated: the stages of a | b are the stages of a followed by those of
\* b, and a | b differs from b | a whenever a differs from b.
C3_Original ==
    \A a \in NonRedirect, b \in NonRedirect :
        /\ StageTrees(Append(heap, OrResult(heap, a, b).node), Len(heap) + 1)
                = StageTrees(heap, a) \o StageTrees(heap, b)
        /\ Tree(heap, a) # Tree(heap, b) => OrTree(heap, a, b) # OrTree(heap, b, a)

\* C3 as amended: the stages of a | b are the stages of a followed by those of
\* b (by object and by tree); a | b differs from b | a whenever the two
\* concatenations of stages differ, and so whenever a and b are different atomic
\* runnables.
C3_StagesConcatenate ==
    \A a \in NonRedirect, b \in NonRedirect :
        LET h1 == Append(heap, OrResult(heap, a, b).node)
        IN  /\ OrResult(heap, a, b).err = ""
            /\ Stages(h1, Len(h1)) = Stages(heap, a) \o Stages(heap, b)
            /\ StageTrees(h1, Len(h1)) = StageTrees(heap, a) \o StageTrees(heap, b)
            /\ StageTrees(heap, a) \o StageTrees(heap, b)
                    # StageTrees(heap, b) \o StageTrees(heap, a)
                  => OrTree(heap, a, b) # OrTree(heap, b, a)
            /\ IsAtomic(heap[a]) /\ IsAtomic(heap[b]) /\ Tree(heap, a) # Tree(heap, b)
                  => OrTree(heap, a, b) # OrTree(heap, b, a)

\* a | b has been built from two different atomic runnables: its stages are a
\* then b, and it is not the tree of b | a.
C3_Witness ==
    /\ last.op = "or"
    /\ last.err = ""
    /\ IsAtomic(heap[last.args[1]]) /\ IsAtomic(heap[last.args[2]])
    /\ Tree(heap, last.args[1]) # Tree(heap, last.args[2])
    /\ Stages(heap, last.res) = <<last.args[1], last.args[2]>>
    /\ Tree(heap, last.res) # OrTree(heap, last.args[2], last.args[1])

\* C4: a | or pipe call with a Redirect among its operands raises an error,
\* returns no object, allocates nothing and leaves every object as it was.
HasRedirectOperand(call) ==
    /\ call.op \in {"or", "pipe"}
    /\ \E i \in DOMAIN call.args :
            call.args[i] \in DOMAIN heap /\ heap[call.args[i]].t = "Redirect"

C5_OperandsUnchanged ==
    [][/\ \A id \in DOMAIN heap :
            /\ id \in DOMAIN heap'
            /\ heap'[id] = heap[id]
            /\ Tree(heap', id) = Tree(heap, id)
       /\ live \subseteq live'
       /\ last'.res # 0 /\ last' # last => last'.res \notin DOMAIN heap]_vars

\* A Pipeline has been extended by | into a new, longer Pipeline.
C5_Witness ==
    /\ last.op = "or"
    /\ last.err = ""
    /\ heap[last.args[1]].t = "Pipeline"
    /\ last.res \notin {last.args[1], last.args[2]}
    /\ Len(Stages(heap, last.res)) > Len(Stages(heap, last.args[1]))


(***************************************************************************)
(* The environment store across executions.                                *)
(***************************************************************************)
SameBinding(before, after, key) ==
    /\ contains_key(before, key) = contains_key(after, key)
    /\ get(before, key) = get(after, key)

ExecutedWithEnv ==
    /\ nops' = nops + 1
    /\ last_call'.op = "execute"
    /\ last_call'.t = "WithEnv"

\* C6 (as stated): executing WithEnv{r, O} leaves every key of O with the same
\* presence in the open table and the same value as before, for ordinary and
\* for distinguished keys.
C6_Original ==
    [][ExecutedWithEnv => \A key \in last_call'.ks : SameBinding(env, env', key)]_vars

\* C6, the keys the code does restore: every key of O other than ? and $.
C6_RestoredExceptPidAndStatus ==
    [][ExecutedWithEnv =>
          \A key \in last_call'.ks \ {"?", "$"} : SameBinding(env, env', key)]_vars

C6_Witness ==
    /\ last_call.op = "execute"
    /\ last_call.t = "WithEnv"
    /\ "$" \in last_call.ks
    /\ contains_key(env, "$")

\* C7: after every top-level execute that returns with exit code k, reading
\* the key ? yields Integer(k), whatever the variant executed.
C7_LastExitObserved ==
    last_call.op = "execute" => get(env, "?") = Some(Integer(last_call.exit_code))

C7_Witness ==
    /\ last_call.op = "execute"
    /\ last_call.t = "WithEnv"
    /\ "?" \in last_call.ks
    /\ last_call.exit_code = 137
    /\ env.last_exit = Integer(137)

(***************************************************************************)
(* Exit codes.                                                             *)
(***************************************************************************)
\* The exit code a terminal status stands for: c, or 128 + s.
CodeOf(status) == IF status.kind = "Exited" THEN status.n % 256 ELSE 128 + status.n

\* C8: the exit code a pipeline returns is that of its final stage (the final
\* child's wait status, or the value the final builtin returned), whatever the
\* statuses of the predecessors and the order in which the children terminate.
C8_PipelineExitIsFinalStage ==
    pc = "returned" =>
        /\ \A pid \in DOMAIN procs : procs[pid].state = "reaped"
        /\ IF final_stage = "Builtin"
               THEN /\ Len(procs) = num_pipes
                    /\ pipeline_exit = builtin_ret % 256
               ELSE /\ last_child = num_pipes + 1
                    /\ pipeline_exit = CodeOf(procs[last_child].status)

C8_Witness ==
    /\ pc = "returned"
    /\ final_stage = "Command"
    /\ num_pipes = 2
    /\ exit_order = <<3, 2, 1>>
    /\ procs[1].status = SignaledStatus(9)
    /\ procs[2].status = ExitedStatus(0)
    /\ procs[3].status = ExitedStatus(7)
    /\ pipeline_exit = 7

\* C9: a child that exits with status c yields c as an unsigned 8-bit value, a
\* child killed by signal s yields 128 + s, which fits in 8 bits for every
\* signal 1..64; the capture-mode wait maps as the normal wait does.
C9_ExitCodeMapping ==
    wait_pc = "returned" =>
        LET status == wait_child.status
        IN  /\ status.kind = "Exited" => wait_result.exit_code = status.n % 256
            /\ status.kind = "Signaled" => wait_result.exit_code = 128 + status.n
            /\ wait_result.exit_code \in 0 .. 255
            /\ wait_for_child(status)
                   = wait_for_child_captured(status, CaptureFds.stdout_fd,
                                             CaptureFds.stderr_fd).exit_code

C9_Witness ==
    /\ wait_pc = "returned"
    /\ wait_mode = "captured"
    /\ wait_child.status = SignaledStatus(MaxSignal)
    /\ wait_result.exit_code = 128 + MaxSignal

\* C10 (as stated): set on a distinguished key writes that key's reserved slot
\* and leaves the open table as it was; set on any other key inserts or
\* overwrites exactly that entry of the open table.
C10_Original ==
    [][(nops' = nops + 1 /\ last_call'.op = "set" /\ shell' = "running") =>
          LET key == last_call'.t
              value == last_call'.v
          IN  IF key \in DistinguishedKeys
                  THEN /\ get(env', key) = Some(value)
                       /\ keys(env') = keys(env)
                       /\ len(env') = len(env)
                       /\ \A k \in SetKeys : contains_key(env', k) = contains_key(env, k)
                       /\ to_envp(env') = to_envp(env)
                  ELSE env' = [env EXCEPT !.env_vars = Insert(env.env_vars, key, value)]]_vars

C10_Witness ==
    /\ last_call.op = "set"
    /\ last_call.t = "?"
    /\ contains_key(env, "?")
    /\ get(env, "?") # Some(last_call.v)

(***************************************************************************)
(* The store after initialize from an inherited environment.               *)
(***************************************************************************)
Exported(e) == {pair[1] : pair \in to_envp(e)}

\* C11 (as stated): in every reachable state of the store no distinguished key
\* appears in keys(), contains() or the envp of to_envp().
C11_Original ==
    \A key \in DistinguishedKeys :
        /\ key \notin keys(env)
        /\ ~contains_key(env, key)
        /\ key \notin Exported(env)

\* C11, a state the inheritance alone produces: OLDPWD is exported with the
\* inherited value while get("OLDPWD") reads the empty reserved slot.
C11_Witness ==
    /\ nops = 0
    /\ "OLDPWD" \in Exported(env)
    /\ get(env, "OLDPWD") = Some(None)

PathShapeValid(value) ==
    \/ value.k \in {"String", "FilePath"}
    \/ /\ value.k = "List"
       /\ \A i \in 1 .. Len(value.v) : value.v[i].k \in {"String", "FilePath"}

\* C12 (as stated): in every reachable state of the store PATH, when present,
\* is a String, a FilePath, or a List whose elements are all String or FilePath.
C12_Original == contains_key(env, "PATH") => PathShapeValid(env.env_vars["PATH"])

\* C12, a state the inheritance alone produces: the empty segment of an
\* inherited PATH is an element None of the List.
C12_Witness ==
    /\ nops = 0
    /\ contains_key(env, "PATH")
    /\ env.env_vars["PATH"].k = "List"
    /\ \E i \in 1 .. Len(env.env_vars["PATH"].v) : env.env_vars["PATH"].v[i] = None

(***************************************************************************)
(* Projection and parsing.                                                 *)
(***************************************************************************)
\* Equality up to List element parsing: a List comes back as a List of the
\* same length whose elements are its elements parsed back one by one.
\* (A Decimal holds its value, not its text, so textual normalization is
\* already equality.)
SameUpToElements(value, parsed) ==
    /\ parsed.k = value.k
    /\ IF value.k = "List"
           THEN /\ Len(parsed.v) = Len(value.v)
                /\ \A i \in 1 .. Len(value.v) :
                       parsed.v[i] = parse_from_string(to_string_repr(value.v[i]))
           ELSE parsed = value

\* C13 (as stated): for every canonical EnvValue v,
\* parse_from_string(to_string_repr(v)) = v, up to Decimal textual
\* normalization and up to List element parsing.
C13_Original == rt_pc = "parsed" => SameUpToElements(rt_value, rt_parsed)

\* The values whose text reads back as another variant: a Decimal without a
\* fraction (printed without '.'), a path that holds ':', a List of fewer
\* than two elements.
TextAmbiguous(value) ==
    \/ value.k = "Decimal" /\ value.v % Pow10(DecimalScale) = 0
    \/ value.k = "FilePath" /\ contains(value.v, ":")
    \/ value.k = "List" /\ Len(value.v) < 2

\* C13, where the code does round-trip: every canonical value except those.
C13_RoundTripWhenUnambiguous ==
    (rt_pc = "parsed" /\ ~TextAmbiguous(rt_value)) => SameUpToElements(rt_value, rt_parsed)

\* C13, the failing case reached: Decimal 1.0 projects to "1", which parses
\* to Integer(1).
C13_Witness ==
    /\ rt_pc = "parsed"
    /\ rt_value = Tenths(10)
    /\ rt_text = <<"1">>
    /\ rt_parsed = Integer(1)

(***************************************************************************)
(* Program resolution.                                                     *)
(***************************************************************************)
RanCommand == nops' = nops + 1 /\ last_call'.op = "execute" /\ last_call'.t = "Command"

\* C14: a name that holds '/' is never searched in PATH: NoSuchFile (127) if
\* the path does not exist, PermissionDenied (126) if it exists without an
\* execute bit, else that path; NotFound and InvalidPath exit with 127; a
\* failed resolution reaches the shell only as the exit code: the shell keeps
\* running and only ? changes in its store.
C14_LiteralPathAndExitCodes ==
    [][RanCommand =>
          LET name == run_program'
              r == resolved'
              code == last_call'.exit_code
          IN  /\ contains(name, "/") =>
                     /\ r.probed = <<name>>
                     /\ name \notin DOMAIN files =>
                            ~r.ok /\ r.error = "NoSuchFile" /\ code = 127
                     /\ (name \in DOMAIN files /\ ~files[name]) =>
                            ~r.ok /\ r.error = "PermissionDenied" /\ code = 126
                     /\ (name \in DOMAIN files /\ files[name]) => r.ok /\ r.path = name
              /\ (~r.ok /\ r.error \in {"NotFound", "InvalidPath"}) => code = 127
              /\ ~r.ok =>
                     /\ shell' = "running"
                     /\ cwd' = cwd
                     /\ env' = [env EXCEPT !.last_exit = Integer(code)]]_vars

C14_Witness ==
    /\ last_call.op = "execute"
    /\ run_program = FileAL
    /\ get(env, "PATH") = Some(Integer(7))
    /\ ~resolved.ok
    /\ resolved.error = "PermissionDenied"
    /\ resolved.probed = <<FileAL>>
    /\ env.last_exit = Integer(126)
    /\ shell = "running"

\* The candidates of the rule as stated: dir/name for each non-empty directory
\* in order, and the places of those that exist with an execute bit.
NonEmpty(dir) == dir # <<>>
Candidates(dirs, name) ==
    LET kept == SelectSeq(dirs, NonEmpty)
    IN  [i \in 1 .. Len(kept) |-> path_join(kept[i], name)]
Hits(cands, fs) == {i \in 1 .. Len(cands) : cands[i] \in DOMAIN fs /\ fs[cands[i]]}

DirsOfShape(value) ==
    CASE value.k = "List" -> [i \in 1 .. Len(value.v) |-> value.v[i].v]
      [] value.k = "String" -> split(value.v, ":")
      [] value.k = "FilePath" -> <<value.v>>

FirstHitReturned(r, cands, fs) ==
    IF Hits(cands, fs) # {} THEN r.ok /\ r.path = cands[Min(Hits(cands, fs))]
    ELSE ~r.ok /\ r.error = "NotFound"

\* the general rule: directories in order by the shape of PATH, empty ones
\* skipped, first executable candidate; NotFound only when there is none,
\* InvalidPath only for another shape
GeneralRule(name, r, path_var, fs) ==
    IF ~path_var.some THEN FirstHitReturned(r, Candidates(FallbackDirs, name), fs)
    ELSE IF PathShapeValid(path_var.v)
        THEN FirstHitReturned(r, Candidates(DirsOfShape(path_var.v), name), fs)
        ELSE ~r.ok /\ r.error = "InvalidPath"

HasEmptySegment(text) ==
    contains(text, ":") /\ \E i \in 1 .. Len(split(text, ":")) : split(text, ":")[i] = <<>>
OnlyDirectories(text) ==
    \A i \in 1 .. Len(split(text, ":")) :
        split(text, ":")[i] = <<>> \/ starts_with(split(text, ":")[i], <<"/">>)

\* the particular case: PATH is as inherited from a colon-separated string of
\* directories with an empty segment; a program found in a non-empty segment
\* resolves
InheritedRule(name, r, path_var, fs) ==
    \A text \in InheritedPaths :
        (/\ HasEmptySegment(text)
         /\ OnlyDirectories(text)
         /\ path_var = Some(parse_from_string(text))
         /\ Hits(Candidates(split(text, ":"), name), fs) # {}) =>
            /\ r.ok
            /\ r.path = Candidates(split(text, ":"), name)[
                            Min(Hits(Candidates(split(text, ":"), name), fs))]

\* C15 (as stated): for a name without '/', the general rule, and in
\* particular a PATH inherited with an empty segment still resolves programs
\* found in its non-empty segments.
C15_Original ==
    [][(RanCommand /\ ~contains(run_program', "/")) =>
          /\ GeneralRule(run_program', resolved', get(env, "PATH"), files)
          /\ InheritedRule(run_program', resolved', get(env, "PATH"), files)]_vars

\* C15, the general rule alone, which the code follows.
C15_GeneralRule ==
    [][(RanCommand /\ ~contains(run_program', "/")) =>
          GeneralRule(run_program', resolved', get(env, "PATH"), files)]_vars

\* C15, the failing case reached: PATH inherited as "/a:", /a/l executable,
\* and the resolution of l ends in InvalidPath.
C15_Witness ==
    /\ last_call.op = "execute"
    /\ run_program = NameL
    /\ get(env, "PATH") = Some(parse_from_string(<<"/", "a", ":">>))
    /\ FileAL \in DOMAIN files
    /\ files[FileAL]
    /\ ~resolved.ok
    /\ resolved.error = "InvalidPath"
    /\ env.last_exit = Integer(127)

(***************************************************************************)
(* Where a builtin runs.                                                   *)
(***************************************************************************)
ShellState == ProcessState(env, cwd)

\* The place of the builtin of a request: itself, the final stage of a
\* pipeline or the inner of a WithEnv ("shell"), the inner of a Redirect or of
\* a Subshell, a non-final stage of a pipeline.
BuiltinPlace(x) ==
    CASE x.t = "Builtin" -> "shell"
      [] x.t = "Pipeline" /\ x.final_cmd.t = "Builtin" -> "shell"
      [] x.t = "WithEnv" /\ x.runnable.t = "Builtin" -> "shell"
      [] x.t = "Redirect" /\ x.runnable.t = "Builtin" -> "redirect"
      [] x.t = "Subshell" /\ x.runnable.t = "Builtin" -> "subshell"
      [] x.t = "Pipeline" /\ x.predecessors[1].t = "Builtin" -> "predecessor"
      [] OTHER -> "none"

TheBuiltin(x) ==
    CASE x.t = "Builtin" -> x
      [] x.t = "Pipeline" /\ x.final_cmd.t = "Builtin" -> x.final_cmd
      [] x.t = "Pipeline" -> x.predecessors[1]
      [] OTHER -> x.runnable

\* what the builtin does when called in the process in state st
InProcess(st, x) ==
    LET b == TheBuiltin(x)
        at == IF x.t = "WithEnv"
                  THEN [st EXCEPT !.env = ApplyAll(st.env, x.env_overlay, DOMAIN x.env_overlay)]
                  ELSE st
    IN  RunBuiltin(at, b.name, b.args)

\* the effects of the builtin on the working directory, the directory stack
\* and the life of the shell are those of the call in the shell process
EffectsPersist(st, x, r) ==
    /\ r.fate = InProcess(st, x).fate
    /\ r.st.cwd = InProcess(st, x).st.cwd
    /\ r.st.env.dir_stack = InProcess(st, x).st.env.dir_stack
    /\ x.t # "WithEnv" => r.st.env = InProcess(st, x).st.env

Isolated(st, r) == r.fate = "returned" /\ r.st = st

\* C16 (as stated): a builtin runs in the shell process, its effects
\* persisting after execute returns, except as a non-final stage of a
\* pipeline, where the shell's store and working directory are unchanged.
\* (The builtin inside a Subshell is left to the Subshell's own rule.)
C16_Original ==
    shell = "running" =>
        \A x \in Requests, oc \in Oracles :
            LET r == execute_command_spec(ShellState, x, oc)
            IN  /\ (BuiltinPlace(x) \in {"shell", "redirect"} /\ oc.open_ok) =>
                       EffectsPersist(ShellState, x, r)
                /\ BuiltinPlace(x) = "predecessor" => Isolated(ShellState, r)

\* C16, what the code does: a builtin that is the request, the final stage of
\* a pipeline or the inner of a WithEnv runs in the shell process; one that is
\* a non-final stage, or the inner of a Redirect or of a Subshell, runs in a
\* forked child and leaves the shell's store and working directory unchanged.
C16_ForkedUnderRedirectToo ==
    shell = "running" =>
        \A x \in Requests, oc \in Oracles :
            LET r == execute_command_spec(ShellState, x, oc)
            IN  /\ BuiltinPlace(x) = "shell" => EffectsPersist(ShellState, x, r)
                /\ BuiltinPlace(x) \in {"predecessor", "redirect", "subshell"} =>
                       Isolated(ShellState, r)

\* C16, the failing case reached: exit 3 under a Redirect ran in a child: the
\* shell got exit code 3 and is still running.
C16_Witness ==
    /\ last_call.op = "execute"
    /\ last_call.t = "Redirect"
    /\ last_call.exit_code = 3
    /\ shell = "running"

(***************************************************************************)
(* Subshell isolation.                                                     *)
(***************************************************************************)
ExceptLastExit(e) == [e EXCEPT !.last_exit = Integer(0)]

\* in every state the shell can be in, a Subshell returns this process's own
\* state and the exit code of its inner
SubshellReturnsInner ==
    shell = "running" =>
        \A x \in Requests, oc \in Oracles :
            x.t = "Subshell" =>
                LET r == execute_command_spec(ShellState, x, oc)
                    inner == execute_command_spec(ShellState, x.runnable, oc)
                IN  /\ r.fate = "returned"
                    /\ r.st = ShellState
                    /\ r.code = inner.code

\* a step that executes a Subshell changes nothing but the slot "?"
SubshellStep ==
    (last_call'.t = "Subshell" /\ nops' = nops + 1) =>
        /\ last_call'.op = "execute"
        /\ ExceptLastExit(env') = ExceptLastExit(env)
        /\ get(env', "?") = Some(Integer(last_call'.exit_code))
        /\ cwd' = cwd
        /\ shell' = shell

\* C17: executing Subshell{inner} leaves the shell's store (open table,
\* reserved slots other than "?", directory stack), its working directory
\* and its descriptors unchanged whatever inner does, and the exit code of
\* the result is that of inner.
C17_SubshellIsolation == []SubshellReturnsInner /\ [][SubshellStep]_vars

\* C17, the case reached: a Subshell whose inner is exit 3 has been executed:
\* the result carries the inner's exit code 3 and the shell is still running
\* where it was.
C17_Witness ==
    /\ last_call.op = "execute"
    /\ last_call.t = "Subshell"
    /\ last_call.exit_code = 3
    /\ get(env, "?") = Some(Integer(3))
    /\ shell = "running"
    /\ cwd = "/"

(***************************************************************************)
(* with_env on a WithEnv.                                                  *)
(***************************************************************************)
\* merged is old updated by new: the keys of both, new's value where new has
\* the key, old's value elsewhere
Updates(merged, old, new) ==
    /\ DOMAIN merged = DOMAIN old \cup DOMAIN new
    /\ \A k \in DOMAIN new : merged[k] = new[k]
    /\ \A k \in DOMAIN old \ DOMAIN new : merged[k] = old[k]

\* what the claim says with_env(self, kw) returns
Merges(h, self, kw, node) ==
    /\ node.t = "WithEnv"
    /\ IF h[self].t = "WithEnv"
           THEN /\ node.runnable = h[self].runnable
                /\ Updates(node.env_overlay, h[self].env_overlay, kw)
           ELSE /\ node.runnable = self
                /\ node.env_overlay = kw

NoNestedWithEnv ==
    \A id \in 1 .. Len(heap) :
        heap[id].t = "WithEnv" => heap[heap[id].runnable].t # "WithEnv"

WithEnvMerges ==
    \A self \in live, kw \in KwargSets : Merges(heap, self, kw, WithEnvResult(heap, self, kw))

WithEnvStep ==
    (last'.op = "with_env" /\ last'.err = "" /\ Len(heap') = Len(heap) + 1) =>
        \E kw \in KwargSets : Merges(heap, last'.args[1], kw, heap'[last'.res])

\* C18: with_env on a WithEnv returns one WithEnv around the same inner
\* runnable whose overlay is the old overlay updated by the new one; on any
\* other runnable it wraps it; so no object ever is a WithEnv whose immediate
\* inner is a WithEnv.
C18_WithEnvMergesNeverNests ==
    [](NoNestedWithEnv /\ WithEnvMerges) /\ [][WithEnvStep]_vars

\* C18, the case reached: with_env(FOO="1") on WithEnv{c, {FOO: "2", BAR: 1}}
\* gave WithEnv{c, {FOO: "1", BAR: 1}}.
C18_Witness ==
    /\ last.op = "with_env"
    /\ last.err = ""
    /\ heap[last.args[1]].t = "WithEnv"
    /\ heap[last.args[1]].env_overlay = [FOO |-> String("2"), BAR |-> Integer(1)]
    /\ heap[last.res].runnable = heap[last.args[1]].runnable
    /\ heap[last.res].env_overlay = [FOO |-> String("1"), BAR |-> Integer(1)]

(***************************************************************************)
(* The hooks: firing order and ids.                                        *)
(***************************************************************************)
RegisteredIn(h, k) == {h[k][i].id : i \in 1 .. Len(h[k])}
RegisteredIds(k) == RegisteredIn(hooks, k)

\* the ids of kind k in the order of their registration, those still
\* registered only
InRegistrationOrder(k) == SelectSeq(reg_log[k], LAMBDA id : id \in RegisteredIds(k))

\* the Vec of each kind holds the registered hooks in registration order,
\* and a firing has invoked the hooks of its kind from the first on, one
\* after the other
FiresInVecOrder ==
    /\ \A k \in Kinds : Ids(hooks[k]) = InRegistrationOrder(k)
    /\ fire_pc # "idle" =>
           /\ Len(invoked) <= Len(hooks[fire_kind])
           /\ invoked = SubSeq(Ids(hooks[fire_kind]), 1, Len(invoked))

\* a firing that returns has invoked every registered hook of its kind
ReturnsAfterAll ==
    (fire_pc = "firing" /\ fire_pc' = "idle") => invoked' = InRegistrationOrder(fire_kind)

\* off removes the hook of that id only and keeps the others in their order
OffRemovesOne ==
    (hook_call'.op = "off" /\ hook_ops' = hook_ops + 1) =>
        /\ Ids(hooks'[hook_call'.kind]) =
               SelectSeq(Ids(hooks[hook_call'.kind]), LAMBDA id : id # hook_call'.id)
        /\ \A k \in Kinds \ {hook_call'.kind} : hooks'[k] = hooks[k]

\* C19, what the code does: a firing invokes the registered hooks of its kind
\* in registration order, each at most once, and all of them if it returns;
\* unregistering removes that hook only and keeps the order of the others.
C19_InOrderWhileItRuns ==
    []FiresInVecOrder /\ [][ReturnsAfterAll /\ OffRemovesOne]_vars

\* C19 (as stated): moreover every firing invokes exactly the registered
\* hooks: once started it comes to invoke all of them.
C19_Original ==
    /\ []FiresInVecOrder
    /\ [][ReturnsAfterAll /\ OffRemovesOne]_vars
    /\ (fire_pc = "firing") ~> (fire_pc = "idle" /\ invoked = Ids(hooks[fire_kind]))

\* C19, the failing case reached: the first of two registered hooks called
\* on() or off() and the firing stopped there; the second was never invoked.
C19_Witness ==
    /\ fire_pc \in {"blocked", "panicked"}
    /\ Len(hooks[fire_kind]) = 2
    /\ invoked = <<hooks[fire_kind][1].id>>

StrictlyIncreasing(ids) == \A i, j \in 1 .. Len(ids) : i < j => ids[i] < ids[j]

\* the ids handed out for a kind are 1, 2, ... in this order, and the
\* registered hooks carry ids handed out for their kind
IdsIncrease ==
    \A k \in Kinds :
        /\ StrictlyIncreasing(reg_log[k])
        /\ reg_log[k] # <<>> => reg_log[k][1] = 1
        /\ RegisteredIds(k) \subseteq {reg_log[k][i] : i \in 1 .. Len(reg_log[k])}
        /\ StrictlyIncreasing(Ids(hooks[k]))

\* on returns an id larger than every id handed out for that kind before and
\* touches no other kind
OnReturnsFreshId ==
    (hook_call'.op = "on" /\ hook_ops' = hook_ops + 1) =>
        /\ \A i \in 1 .. Len(reg_log[hook_call'.kind]) :
               reg_log[hook_call'.kind][i] < hook_call'.id
        /\ hook_call'.id \in RegisteredIn(hooks', hook_call'.kind)
        /\ \A k \in Kinds \ {hook_call'.kind} :
               hooks'[k] = hooks[k] /\ reg_log'[k] = reg_log[k]

\* off returns true exactly when the id was registered for that kind, the id
\* is not registered afterwards, and no other kind is touched
OffReturnsRegistered ==
    (hook_call'.op = "off" /\ hook_ops' = hook_ops + 1) =>
        /\ hook_call'.ret = (hook_call'.id \in RegisteredIds(hook_call'.kind))
        /\ RegisteredIn(hooks', hook_call'.kind) = RegisteredIds(hook_call'.kind) \ {hook_call'.id}
        /\ \A k \in Kinds \ {hook_call'.kind} : hooks'[k] = hooks[k]

\* C20: the ids of a kind start at 1 and strictly increase over any sequence
\* of register and unregister calls, none being reused; the kinds have
\* independent id spaces; unregister returns true exactly when the id is
\* registered for that kind.
C20_HookIds == []IdsIncrease /\ [][OnReturnsFreshId /\ OffReturnsRegistered]_vars

\* C20, the case reached: two kinds each hold a hook of id 1; off of id 1 for
\* one kind returned true and removed that hook only.
C20_Witness ==
    \E k, other \in Kinds :
        /\ k # other
        /\ hook_call = HookCall("off", k, 1, TRUE)
        /\ reg_log[k] = <<1>>
        /\ hooks[k] = <<>>
        /\ Ids(hooks[other]) = <<1>>

(***************************************************************************)
(* Invoking a Runnable again.                                              *)
(***************************************************************************)
IsRedirectOfCommand(id) == heap[id].t = "Redirect" /\ heap[heap[id].runnable].t = "Command"
                               /\ heap[heap[id].runnable].prog \notin BuiltinNames

\* the duplicate a Redirect object carries is open in the shell process
DuplicateStaysOpen ==
    \A id \in 1 .. Len(heap) :
        (heap[id].t = "Redirect" /\ heap[id].target.t = "FileDescriptor") =>
            heap[id].target.fd \in open_fds

\* a __call__ of a Redirect over a command: the result is that of this
\* execution's own child, the shell's descriptors are as before, and a file
\* opened in truncate mode holds the output of this execution only
CallIsIndependent ==
    (Len(calls') = Len(calls) + 1 /\ IsRedirectOfCommand(calls'[Len(calls')].self)) =>
        LET this == calls'[Len(calls')]
            target == heap[this.self].target
        IN  /\ this.exit_code = U8(this.status.n)
            /\ open_fds' = open_fds
            /\ (target.t = "FilePath" /\ ~target.append) => disk'[target.path] = <<"x">>

\* C21: invoking the same Runnable twice gives two independent results: a
\* Redirect to a duplicated descriptor still has that descriptor open in the
\* shell for the second execution, and a Redirect to a path in truncate mode
\* leaves the same file content after each execution.
C21_RepeatableInvocation == []DuplicateStaysOpen /\ [][CallIsIndependent]_vars

\* C21, the case reached: the same Redirect to a duplicated descriptor was
\* invoked twice, the two children ending differently, and the duplicate is
\* still open in the shell.
C21_Witness ==
    /\ Len(calls) = 2
    /\ calls[1].self = calls[2].self
    /\ heap[calls[1].self].t = "Redirect"
    /\ heap[calls[1].self].target.t = "FileDescriptor"
    /\ calls[1].exit_code = 7
    /\ calls[2].exit_code = 0
    /\ heap[calls[1].self].target.fd \in open_fds
    /\ disk["log"] = <<"old", "x", "x">>

(***************************************************************************)
(* The descriptors and pipes of a pipeline.                                *)
(***************************************************************************)
PipelineReturned == fl_pc = "returned"

CapturedCommand == fl_cfg.capture /\ fl_cfg.final = "Command"

FinalOutputFits == fl_cfg.out[Final(fl_cfg)] <= PipeCapacity

\* The final child is blocked writing to a full capture pipe that only the
\* shell could read, and the shell is in waitpid.
BlockedOnCapture ==
    /\ fl_pc = "wait"
    /\ CapturedCommand
    /\ fl_proc[Final(fl_cfg)] = "running"
    /\ fl_todo[Final(fl_cfg)] > 0
    /\ LET end == fl_fds[Final(fl_cfg)][fl_cfg.stream]
       IN  /\ end.pipe # "tty"
           /\ fl_fill[end.pipe] = PipeCapacity
           /\ Holders(fl_fds, ReadEnd(end.pipe)) = {0}

\* C22 as stated: a capture-mode execution of a forked final stage returns
\* whatever amount of output the final stage writes to stdout or stderr; the
\* output need not be drained for the child to exit and be waited for.
C22_Original == (fl_pc = "start" /\ CapturedCommand) ~> PipelineReturned

\* C22: a capture-mode execution of a forked final stage returns when the
\* final stage's output fits into the capture pipe; until it has returned
\* nothing reads the capture pipes, so a final stage that writes more stays
\* blocked in its write and the shell in its wait.
C22_ReturnsWhenOutputFits ==
    /\ (fl_pc = "start" /\ CapturedCommand /\ FinalOutputFits) ~> PipelineReturned
    /\ [](BlockedOnCapture => [](~PipelineReturned))

C22_Witness == BlockedOnCapture /\ fl_cfg.n = 0 /\ fl_cfg.stream = 2

(***************************************************************************)
(* The REPL.                                                               *)
(***************************************************************************)
\* what the loop did after the py.eval at position i of the log, up to the
\* end of that execute_repl_line
RECURSIVE Upto(_, _)
Upto(i, j) ==
    IF j > Len(rp_log) \/ rp_log[j].ev \in {"after_execute", "prompt"} THEN <<>>
    ELSE <<rp_log[j]>> \o Upto(i, j + 1)

AfterEval(i) == Upto(i, i + 1)

Count(events, ev) == Cardinality({k \in 1 .. Len(events) : events[k].ev = ev})

Printed(events) == SelectSeq(events, LAMBDA e : e.ev = "println")

EvalPositions == {i \in 1 .. Len(rp_log) : rp_log[i].ev = "eval"}

RunnableRunOnce(i) ==
    LET did == AfterEval(i)
    IN  /\ Count(did, "call0") = 1
        /\ Count(did, "run") = 0
        /\ \A k \in 1 .. Len(did) : did[k].ev = "call0" =>
               Printed(did) = IF did[k].arg # 0 THEN <<Event("println", <<"Exit code: ", did[k].arg>>)>>
                              ELSE <<>>

ValueIsPrinted(i) ==
    LET did == AfterEval(i)
    IN  did = <<Event("println", <<"repr", rp_log[i].arg>>)>>

NonePrintsNothing(i) == AfterEval(i) = <<>>

FailedEvalIsRun(i) ==
    LET did == AfterEval(i)
    IN  /\ Count(did, "run") = 1
        /\ Count(did, "call0") = 0
        /\ \A k \in 1 .. Len(did) : did[k].ev = "run" => did[k].arg = rp_log[i].arg

\* C23: for each complete statement given to execute_repl_line: a Runnable
\* value is invoked exactly once, "Exit code: N" is printed iff its exit code
\* N is not zero and its representation is not printed; of any other value
\* that is not None only the representation is printed; None prints nothing;
\* a statement whose evaluation fails is run as a statement.
C23_ReplLine ==
    \A i \in EvalPositions :
        /\ is_complete_statement(rp_log[i].arg)
        /\ CASE eval(rp_log[i].arg).t = "ShipRunnable" -> RunnableRunOnce(i)
             [] eval(rp_log[i].arg).t = "Value" -> ValueIsPrinted(i)
             [] eval(rp_log[i].arg).t = "None" -> NonePrintsNothing(i)
             [] OTHER -> FailedEvalIsRun(i)

C23_Witness ==
    /\ \E i \in EvalPositions :
           LET did == AfterEval(i)
           IN  /\ Len(did) = 2
               /\ did[1].ev = "call0" /\ did[1].arg = 3
               /\ did[2].ev = "println" /\ did[2].arg = <<"Exit code: ", 3>>
    /\ \E i \in EvalPositions :
           LET did == AfterEval(i)
           IN  Len(did) = 1 /\ did[1].ev = "call0" /\ did[1].arg = 0
    /\ \E i \in EvalPositions :
           LET did == AfterEval(i)
           IN  Len(did) = 1 /\ did[1].ev = "run" /\ did[1].arg = <<"x = 1">>

(***************************************************************************)
(* cd.                                                                     *)
(***************************************************************************)
CdReturned == last_call'.op = "cd" /\ nops' = nops + 1

\* env::set_current_dir was called and returned Ok
ChangeSucceeded(args) ==
    LET target == cd_target(ProcessState(env, cwd), args)
    IN  target.some /\ cwd \notin Unnameable /\ target.v \in Dirs

\* the step is the call cd(args)
CalledWith(args) ==
    LET r == cd(ProcessState(env, cwd), args)
    IN  r.st.cwd = cwd' /\ r.st.env = env' /\ r.ret = last_call'.exit_code

PwdVars(e) == <<get(e, "PWD"), get(e, "OLDPWD")>>

CdSuccessSetsBoth ==
    last_call'.exit_code = 0 =>
        /\ get(env', "OLDPWD") = Some(FilePath(cwd))
        /\ get(env', "PWD") = Some(FilePath(cwd'))

CdFailureReturnsOne ==
    last_call'.exit_code # 0 => last_call'.exit_code = 1 /\ PwdVars(env') = PwdVars(env)

\* C24 as stated: cd returns 0 iff the directory change succeeded; on success
\* OLDPWD holds the directory that was current before and PWD the new current
\* directory; on any failure it returns 1 and leaves PWD, OLDPWD and the
\* working directory unchanged.
C24_Original ==
    [][CdReturned =>
           /\ \A args \in CdArgs :
                  CalledWith(args) => (last_call'.exit_code = 0 <=> ChangeSucceeded(args))
           /\ CdSuccessSetsBoth
           /\ CdFailureReturnsOne
           /\ last_call'.exit_code # 0 => cwd' = cwd]_vars

\* C24: cd returns 0 only if the directory change succeeded, and then OLDPWD
\* holds the directory that was current before and PWD the new current
\* directory; otherwise it returns 1 and leaves PWD and OLDPWD unchanged, and
\* the working directory too unless set_current_dir succeeded and the new
\* directory could not be read back.
C24_CdExceptUnreadableTarget ==
    [][CdReturned =>
           /\ \A args \in CdArgs :
                  CalledWith(args) => (last_call'.exit_code = 0 => ChangeSucceeded(args))
           /\ CdSuccessSetsBoth
           /\ CdFailureReturnsOne
           /\ (last_call'.exit_code # 0 /\ cwd' \notin Unnameable) => cwd' = cwd]_vars

\* cd /a; cd /home; cd - : the working directory is /a and OLDPWD is /home
C24_Witness ==
    /\ nops = 3
    /\ last_call.op = "cd" /\ last_call.exit_code = 0
    /\ cwd = "/a"
    /\ get(env, "OLDPWD") = Some(FilePath("/home"))
    /\ get(env, "PWD") = Some(FilePath("/a"))

(***************************************************************************)
(* The order of forks and waits in run_pipeline.                           *)
(***************************************************************************)
ReapedIn(ps) == {pid \in DOMAIN ps : ps[pid].state = "reaped"}

AllForked ==
    /\ Len(child_pids) = num_pipes
    /\ Len(procs) = num_pipes + (IF final_stage = "Builtin" THEN 0 ELSE 1)
    /\ final_stage # "Builtin" => last_child = num_pipes + 1

\* a wait returns only when every fork has been made; no fork follows a wait
ForksBeforeWaits ==
    /\ ReapedIn(procs') # ReapedIn(procs) => AllForked
    /\ Len(procs') > Len(procs) => ReapedIn(procs) = {}

\* the exit code of a pipeline with a forked final stage is set by the step
\* that reaps last_child, from the status of last_child
ExitCodeFromFinalWait ==
    /\ (pipeline_exit' # pipeline_exit /\ final_stage # "Builtin") =>
           /\ ReapedIn(procs') \ ReapedIn(procs) = {last_child}
           /\ pipeline_exit' = wait_for_child(procs[last_child].status)
    /\ (ReapedIn(procs') \ ReapedIn(procs)) \cap {child_pids[i] : i \in DOMAIN child_pids} # {} =>
           pipeline_exit' = pipeline_exit

\* C26: in run_pipeline every fork (the predecessors and a final stage that
\* is not a builtin) is made before the parent waits for any child, and the
\* wait on the final child is the only wait whose result becomes the exit
\* code of the pipeline: the waits on the predecessors leave it alone.
C26_ForksThenWaits == [][ForksBeforeWaits /\ ExitCodeFromFinalWait]_vars

C26_Witness ==
    /\ pc = "returned"
    /\ final_stage = "Command"
    /\ num_pipes = 2
    /\ procs[1].status = ExitedStatus(7)
    /\ procs[2].status = SignaledStatus(9)
    /\ procs[3].status = ExitedStatus(0)
    /\ pipeline_exit = 0
    /\ exit_order = <<3, 1, 2>>

(***************************************************************************)
(* Who holds which pipe end.                                               *)
(***************************************************************************)
\* the standard descriptors stage k is to start with
ExpectedAtStart(k) ==
    [fd \in 0 .. 2 |->
        CASE fd = 0 -> IF k > 1 THEN ReadEnd(StagePipe(k - 1)) ELSE Tty(0)
          [] fd = 1 -> IF k <= fl_cfg.n THEN WriteEnd(StagePipe(k))
                       ELSE IF fl_cfg.capture THEN WriteEnd("cout") ELSE Tty(1)
          [] fd = 2 -> IF k > fl_cfg.n /\ fl_cfg.capture THEN WriteEnd("cerr") ELSE Tty(2)]

Started == DOMAIN fl_at_start

ChildrenForked == fl_pc \in {"wait", "returned"}

InterStageEnds(table) == {fd \in DOMAIN table : table[fd].pipe \in StagePipes}

CaptureEnds(table) == {fd \in DOMAIN table : table[fd].pipe \in CapturePipes}

PipeEnds == {ReadEnd(p) : p \in StagePipes \cup CapturePipes}
                \cup {WriteEnd(p) : p \in StagePipes \cup CapturePipes}

\* C27 as stated: a stage child starts with no pipe descriptor open but the
\* ones on its standard descriptors; once the children are forked the parent
\* holds no end of an inter-stage pipe; every pipe end is held by one
\* process; in normal mode and in capture mode.
C27_Original ==
    /\ \A k \in Started : fl_at_start[k] = ExpectedAtStart(k)
    /\ ChildrenForked => InterStageEnds(fl_fds[0]) = {}
    /\ ChildrenForked => \A end \in PipeEnds : Cardinality(Holders(fl_fds, end)) <= 1

\* C27: every stage child starts with the expected pipe ends on its standard
\* descriptors and with no other end of an inter-stage pipe; in normal mode
\* it has no other descriptor at all, in capture mode a predecessor also has
\* the four capture descriptors, which it inherited and never closed.  Once
\* the children are forked the parent of a forked final stage holds no end of
\* an inter-stage pipe, and the parent that runs a final builtin holds one:
\* the read end of the last pipe on its fd 0, until the builtin has returned.
C27_StageDescriptors ==
    /\ \A k \in Started :
           /\ [fd \in 0 .. 2 |-> fl_at_start[k][fd]] = ExpectedAtStart(k)
           /\ InterStageEnds(fl_at_start[k]) \subseteq 0 .. 2
           /\ ~fl_cfg.capture => DOMAIN fl_at_start[k] = 0 .. 2
           /\ k > fl_cfg.n => DOMAIN fl_at_start[k] = 0 .. 2
           /\ (fl_cfg.capture /\ k <= fl_cfg.n) =>
                  {fl_at_start[k][fd] : fd \in CaptureEnds(fl_at_start[k])}
                      = {ReadEnd("cout"), WriteEnd("cout"), ReadEnd("cerr"), WriteEnd("cerr")}
    /\ (ChildrenForked /\ fl_cfg.final = "Command") => InterStageEnds(fl_fds[0]) = {}
    /\ (fl_pc = "wait" /\ fl_cfg.final = "Builtin" /\ fl_cfg.n > 0) =>
           /\ InterStageEnds(fl_fds[0]) = {0}
           /\ fl_fds[0][0] = ReadEnd(StagePipe(fl_cfg.n))
    /\ fl_pc = "returned" => InterStageEnds(fl_fds[0]) = {}
    /\ ChildrenForked =>
           \A p \in StagePipes : /\ Cardinality(Holders(fl_fds, ReadEnd(p))) <= 1
                                 /\ Cardinality(Holders(fl_fds, WriteEnd(p))) <= 1

\* a captured pipeline: the first of two predecessors runs with the read end
\* of the capture pipe open, which the shell holds too
C27_Witness ==
    /\ fl_pc = "wait"
    /\ fl_cfg.capture /\ fl_cfg.n = 2 /\ fl_cfg.final = "Command"
    /\ Holders(fl_fds, ReadEnd("cout")) = {0, 1}

(***************************************************************************)
(* Pipelines return.                                                       *)
(***************************************************************************)
ForkedPipeline == fl_cfg.n > 0 /\ fl_cfg.final = "Command"

\* once its predecessor has ended nobody holds the write end of a stage's
\* stdin pipe: the next read of the drained pipe is end-of-file
EofAfterPredecessorExit ==
    \A k \in 2 .. MaxStages + 1 :
        (ChildrenForked /\ k <= Final(fl_cfg) /\ fl_proc[k - 1] \in {"zombie", "reaped"})
            => Holders(fl_fds, WriteEnd(StagePipe(k - 1))) = {}

\* C28 as stated: a pipeline whose final stage is forked always returns (the
\* stages being processes that end at end-of-file on stdin or when stdout has
\* no reader), a stage seeing end-of-file once its predecessor has exited.
C28_Original ==
    /\ (fl_pc = "start" /\ ForkedPipeline) ~> PipelineReturned
    /\ [](ForkedPipeline => EofAfterPredecessorExit)

\* C28: a pipeline whose final stage is forked returns in normal mode, and in
\* capture mode when the output of the final stage fits into the capture
\* pipe; in both modes nobody but a stage's predecessor holds the write end
\* of its stdin pipe once the children are forked.
C28_ReturnsUnlessCaptureFills ==
    /\ (fl_pc = "start" /\ ForkedPipeline /\ (fl_cfg.capture => FinalOutputFits))
           ~> PipelineReturned
    /\ [](ForkedPipeline => EofAfterPredecessorExit)

\* a three-stage pipeline in normal mode has returned although every
\* predecessor wrote more than a pipe holds
C28_Witness ==
    /\ PipelineReturned
    /\ ForkedPipeline /\ ~fl_cfg.capture /\ fl_cfg.n = 2 /\ fl_cfg.reads
    /\ fl_cfg.out[1] > PipeCapacity /\ fl_cfg.out[2] > PipeCapacity
    /\ \A k \in 2 .. 3 : fl_eof[k]

BuiltinPipeline == fl_cfg.n > 0 /\ fl_cfg.final = "Builtin"

\* The last predecessor is blocked writing to the full last pipe, whose only
\* read end is the shell's fd 0, and the shell is in waitpid.
BlockedOnBuiltinStdin ==
    /\ fl_pc = "wait"
    /\ BuiltinPipeline
    /\ fl_proc[fl_cfg.n] = "running"
    /\ fl_todo[fl_cfg.n] > 0
    /\ fl_fill[StagePipe(fl_cfg.n)] = PipeCapacity
    /\ Holders(fl_fds, ReadEnd(StagePipe(fl_cfg.n))) = {0}
    /\ fl_fds[0][0] = ReadEnd(StagePipe(fl_cfg.n))

\* C29 as stated: a pipeline whose final stage is a builtin always returns
\* (the predecessors being processes that end once their stdout is drained or
\* has no reader); the wait for the predecessors never blocks for ever on a
\* predecessor blocked on the full pipe that the parent holds on its fd 0.
C29_Original ==
    /\ (fl_pc = "start" /\ BuiltinPipeline) ~> PipelineReturned
    /\ [](~BlockedOnBuiltinStdin)

\* C29: a pipeline whose final stage is a builtin returns when the output of
\* the last predecessor fits into the pipe; the last pipe is read by nobody
\* before the builtin runs, so a predecessor blocked on it stays blocked and
\* the pipeline never returns.
C29_ReturnsWhenLastPipeHolds ==
    /\ (fl_pc = "start" /\ BuiltinPipeline /\ fl_cfg.out[fl_cfg.n] <= PipeCapacity)
           ~> PipelineReturned
    /\ [](BlockedOnBuiltinStdin => [](~PipelineReturned))

C29_Witness == BlockedOnBuiltinStdin /\ ~fl_cfg.capture /\ fl_cfg.n = 1

(***************************************************************************)
(* The shell's descriptors after a final builtin.                          *)
(***************************************************************************)
BuiltinFinalReturned == fl_pc = "returned" /\ fl_cfg.final = "Builtin"

\* C30: when the final stage of a pipeline is a builtin, after run_pipeline
\* has returned the shell's fd 0 (and in capture mode fds 1 and 2) are open on
\* what they were open on before the pipeline started, and neither the saved
\* copies nor any end of an inter-stage pipe is open in the shell: above fd 2
\* the shell has only the two capture read ends it returns in capture mode.
C30_DescriptorsRestored ==
    BuiltinFinalReturned =>
        /\ \A fd \in 0 .. 2 : fl_fds[0][fd] = Tty(fd)
        /\ \A fd \in DOMAIN fl_saved : fl_saved[fd] \notin DOMAIN fl_fds[0]
        /\ InterStageEnds(fl_fds[0]) = {}
        /\ {fl_fds[0][fd] : fd \in DOMAIN fl_fds[0] \ (0 .. 2)}
               = IF fl_cfg.capture THEN {ReadEnd("cout"), ReadEnd("cerr")} ELSE {}
        /\ Cardinality(DOMAIN fl_fds[0]) = IF fl_cfg.capture THEN 5 ELSE 3

\* a captured two-predecessor pipeline with a final builtin has returned; the
\* shell had put the last pipe on fd 0 and the capture pipes on fds 1 and 2
C30_Witness ==
    /\ BuiltinFinalReturned
    /\ fl_cfg.capture /\ fl_cfg.n = 2
    /\ DOMAIN fl_saved = {0, 1, 2}
    /\ fl_fds[0][0] = Tty(0)

(***************************************************************************)
(* Ctrl-C in the REPL loop.                                                *)
(***************************************************************************)
IsCtrlC(e) == e.ev = "println" /\ e.arg = <<"^C">>

CtrlCPositions == {j \in 1 .. Len(rp_log) : IsCtrlC(rp_log[j])}

\* the lines read between positions j and i of the log
LinesBetween(j, i) ==
    LET picked == SelectSeq(SubSeq(rp_log, j + 1, i - 1), LAMBDA e : e.ev = "line")
    IN  [k \in 1 .. Len(picked) |-> picked[k].arg]

IsSuffix(s, t) == Len(s) <= Len(t) /\ s = SubSeq(t, Len(t) - Len(s) + 1, Len(t))

\* whatever is executed, or handed to a hook, after a Ctrl-C is made of lines
\* read after that Ctrl-C
DiscardedLinesUnused ==
    \A j \in CtrlCPositions :
        \A i \in j + 1 .. Len(rp_log) :
            rp_log[i].ev \in {"before_execute", "eval", "call0", "run", "after_execute",
                              "before_continuation"}
                => IF rp_log[i].ev = "call0" THEN TRUE
                   ELSE IsSuffix(rp_log[i].arg, LinesBetween(j, i))

Last(s) == s[Len(s)]

JustInterrupted == rp_pc = "top" /\ rp_log # <<>> /\ IsCtrlC(Last(rp_log))

PrimaryPromptShown ==
    /\ rp_pc = "read"
    /\ ~rp_continuation
    /\ Last(rp_log) = Event("prompt", "primary")

\* the step of a Ctrl-C: the buffer is emptied, ^C is printed and nothing
\* else happens; the loop goes on
CtrlCStep ==
    (rp_log' # rp_log /\ IsCtrlC(Last(rp_log'))) =>
        /\ rp_buffer' = <<>>
        /\ rp_log' = Append(rp_log, Event("println", <<"^C">>))
        /\ rp_pc' = "top"

ReapedOnce == \A pid \in ReapedIn(procs) : procs'[pid] = procs[pid]

\* a wait reaps one child, one that has ended and was not reaped before
ReapsAZombie ==
    \A pid \in ReapedIn(procs') \ ReapedIn(procs) :
        /\ procs[pid].state = "zombie"
        /\ ReapedIn(procs') = ReapedIn(procs) \cup {pid}

AllReapedOnReturn ==
    pc \in {"returned", "exited"} =>
        /\ AllForked
        /\ ReapedIn(procs) = DOMAIN procs

FreeAtFork == lk_fork_lock \in {"none", "free"}

NeverBlockedOnSelf == lk_pc # "blocked"

NoNestedAcquire ==
    (lk_pc = "running" /\ Head(lk_todo) \in {"read", "write"}) => lk_lock = "free"

C32_LockDiscipline == FreeAtFork /\ NeverBlockedOnSelf /\ NoNestedAcquire

\* an execute of WithEnv over a forking command has forked, with the overlay
\* applied and the guard released, and is about to restore
C32_Witness ==
    /\ lk_fork_lock = "free"
    /\ lk_lock = "free"
    /\ lk_pc = "running"
    /\ lk_todo = <<"write", "release">> \o set_var_steps

(***************************************************************************)
(* C33: lowering keeps the shape of the request: a pipeline stays a        *)
(* pipeline whose predecessors and final command are its stages lowered,   *)
(* in their order and number; a wrapper stays the same wrapper over the    *)
(* lowered request; a Program becomes a Builtin exactly when its name is   *)
(* one of the eight registered names, a Command otherwise, with the same   *)
(* name and arguments.                                                     *)
(***************************************************************************)
Registered == {"cd", "pwd", "pushd", "popd", "dirs", "exit", "quit", "which"}

RECURSIVE SameShape(_, _)
SameShape(request, spec) ==
    CASE request.t = "Program" ->
            IF request.name \in Registered
                THEN spec = [t |-> "Builtin", name |-> request.name, args |-> request.args]
                ELSE spec = [t |-> "Command", program |-> request.name, args |-> request.args]
      [] request.t = "Pipeline" ->
            /\ spec.t = "Pipeline"
            /\ Len(spec.predecessors) + 1 = Len(request.stages)
            /\ \A i \in 1 .. Len(request.stages) :
                   SameShape(request.stages[i], Append(spec.predecessors, spec.final_cmd)[i])
      [] request.t = "Subshell" ->
            spec.t = "Subshell" /\ SameShape(request.request, spec.runnable)
      [] request.t = "Redirect" ->
            /\ spec.t = "Redirect"
            /\ spec.target = request.target
            /\ SameShape(request.request, spec.runnable)
      [] request.t = "WithEnv" ->
            /\ spec.t = "WithEnv"
            /\ spec.env_overlay = request.env_overlay
            /\ SameShape(request.request, spec.runnable)

C33_LoweringKeepsShape ==
    \A id \in 1 .. Len(heap) :
        SameShape(exec_request(Tree(heap, id)), lower(Tree(heap, id)))

\* a pipeline of a builtin and a program is lowered: the builtin is the
\* predecessor and the program the final command, as in the request
C33_Witness ==
    \E id \in 1 .. Len(heap) :
        /\ heap[id].t = "Pipeline"
        /\ LET request == exec_request(Tree(heap, id))
               spec == lower(Tree(heap, id))
           IN  /\ Len(request.stages) = 2
               /\ request.stages[1].t = "Program"
               /\ request.stages[1].name = "cd"
               /\ request.stages[2].t = "Program"
               /\ request.stages[2].name = "ls"
               /\ spec.t = "Pipeline"
               /\ spec.predecessors[1].t = "Builtin"
               /\ spec.final_cmd.t = "Command"

(***************************************************************************)
(* C34: no object the constructors and operators build reaches one of the  *)
(* two pipeline panics when it is lowered and executed: every Pipeline has *)
(* a predecessor, and no stage is a Pipeline.  A Pipeline under a Subshell *)
(* or a WithEnv that is a stage is run by run_pipeline in the stage's      *)
(* child.  The objects are those on the heap and every a | b of two of     *)
(* them.                                                                   *)
(***************************************************************************)
Piped == {p \in (DOMAIN heap) \X (DOMAIN heap) : OrResult(heap, p[1], p[2]).err = ""}

EveryPipelineHasAPredecessor ==
    /\ \A id \in DOMAIN heap :
           heap[id].t = "Pipeline" => Len(heap[id].predecessors) >= 1
    /\ \A p \in Piped : Len(OrResult(heap, p[1], p[2]).node.predecessors) >= 1

C34_NoPipelinePanic ==
    /\ EveryPipelineHasAPredecessor
    /\ \A id \in DOMAIN heap : ~spec_panics(lower(Tree(heap, id)))
    /\ \A p \in Piped : ~spec_panics(lower(OrTree(heap, p[1], p[2])))

\* a Subshell or WithEnv over a Pipeline is piped into a command: the lowered
\* pipeline has the wrapper, with the Pipeline inside it, as its predecessor
C34_Witness ==
    \E p \in Piped :
        /\ heap[p[1]].t \in {"Subshell", "WithEnv"}
        /\ heap[heap[p[1]].runnable].t = "Pipeline"
        /\ LET spec == lower(OrTree(heap, p[1], p[2]))
           IN  /\ spec.t = "Pipeline"
               /\ spec.predecessors[1].t = heap[p[1]].t
               /\ spec.predecessors[1].runnable.t = "Pipeline"

(***************************************************************************)
(* C35: the code of a complete statement is evaluated at most once by      *)
(* execute_repl_line.  The evaluations of the statement at position i of   *)
(* the log: the one py.eval makes when the code compiles as an expression, *)
(* and every py.run.                                                       *)
(***************************************************************************)
Evaluations(i) ==
    (IF is_expression(rp_log[i].arg) THEN 1 ELSE 0) + Count(AfterEval(i), "run")

RaisedAtRunTime(i) == is_expression(rp_log[i].arg) /\ eval(rp_log[i].arg).t = "Err"

C35_Original == \A i \in EvalPositions : Evaluations(i) <= 1

\* What holds: exactly one evaluation, except for an expression whose
\* evaluation raises, which is evaluated a second time by py.run.
C35_OnceUnlessExpressionRaises ==
    \A i \in EvalPositions :
        Evaluations(i) = IF RaisedAtRunTime(i) THEN 2 ELSE 1

\* an assignment (not an expression) has been run once, and an expression
\* that raised has been evaluated and then run
C35_Witness ==
    /\ \E i \in EvalPositions : rp_log[i].arg = <<"x = 1">> /\ Evaluations(i) = 1
    /\ \E i \in EvalPositions : rp_log[i].arg = <<"boom()">> /\ Evaluations(i) = 2

(***************************************************************************)
(* C36: a firing of the hooks of a kind always completes, also when a      *)
(* callback calls on() or off() during the firing: the firing loop never   *)
(* stops on the lock of the registry.                                      *)
(***************************************************************************)
FiringStopped == fire_pc \in {"blocked", "panicked"}

RestIsPlain ==
    \A i \in fire_pos .. Len(hooks[fire_kind]) : hooks[fire_kind][i].callback = "plain"

C36_Original ==
    /\ []~FiringStopped
    /\ (fire_pc = "firing") ~> (fire_pc = "idle")

\* What holds: a firing completes when none of the callbacks still to be
\* invoked registers or unregisters a hook, and a firing stops only at a
\* callback that does.
C36_CompletesUnlessCallbackReenters ==
    /\ [](FiringStopped =>
             /\ fire_pos <= Len(hooks[fire_kind])
             /\ hooks[fire_kind][fire_pos].callback = "reenters")
    /\ (fire_pc = "firing" /\ RestIsPlain) ~> (fire_pc = "idle")

\* the only hook of a kind called on() for another hook during the firing:
\* an id was taken from a counter, no hook was added, and the firing stopped
C36_Witness ==
    /\ FiringStopped
    /\ Len(hooks[fire_kind]) = 1
    /\ invoked = <<hooks[fire_kind][1].id>>
    /\ \E k \in Kinds : hook_counter[k] = Len(reg_log[k]) + 2

(***************************************************************************)
(* C37: in the loop of repl.rs a line that completes a statement that is   *)
(* not blank fires the before_execute hooks, runs the executor once and    *)
(* fires the after_execute hooks, in this order and once each, also when   *)
(* the executor returns an error; a line that completes a blank statement  *)
(* or leaves the buffer incomplete fires no hook and runs nothing; the     *)
(* buffer is empty after every complete statement.  The callbacks return.  *)
(***************************************************************************)
Added == SubSeq(rp_log', Len(rp_log) + 1, Len(rp_log'))

LineRead == rp_loop = "repl" /\ Len(rp_log') > Len(rp_log) /\ Added[1].ev = "line"

Statement == Append(rp_buffer, Added[1].arg)

Executed(events, buf) ==
    /\ Len(events) >= 3
    /\ events[1].ev = "before_execute" /\ events[1].arg = buf
    /\ events[2].ev = "eval" /\ events[2].arg = buf
    /\ events[Len(events)].ev = "after_execute" /\ events[Len(events)].arg = buf
    /\ Count(events, "before_execute") = 1
    /\ Count(events, "eval") = 1
    /\ Count(events, "after_execute") = 1

StatementStep ==
    LineRead =>
        IF is_complete_statement(Statement)
            THEN /\ rp_buffer' = <<>>
                 /\ IF blank(Statement) THEN Len(Added) = 1
                    ELSE Executed(Tail(Added), Statement)
            ELSE /\ Len(Added) = 1
                 /\ rp_buffer' = Statement

StackCall == last_call' # last_call /\ last_call'.op \in {"pushd", "popd"}

FailureKeepsStack ==
    (StackCall /\ last_call'.exit_code = 1) => env'.dir_stack = env.dir_stack

RoundTrip ==
    (/\ last_call.op = "pushd" /\ last_call.exit_code = 0
     /\ last_call' # last_call
     /\ last_call'.op = "popd" /\ last_call'.exit_code = 0)
        => /\ cwd' = last_call.v.cwd
           /\ env'.dir_stack = last_call.v.dir_stack

C38_Original == [][FailureKeepsStack /\ RoundTrip]_vars

\* The call got as far as its cd: pushd had an argument and could read the
\* working directory, popd had no argument and a stack that was not empty.
ReachedCd ==
    \/ last_call'.op = "pushd" /\ env'.dir_stack = Append(env.dir_stack, cwd)
    \/ last_call'.op = "popd" /\ env.dir_stack # <<>>
           /\ env'.dir_stack = SubSeq(env.dir_stack, 1, Len(env.dir_stack) - 1)

\* What holds: a call that returns 1 before its cd leaves the stack alone; one
\* whose cd fails keeps what it pushed, or has dropped what it popped; the
\* round trip is as claimed.
FailureKeepsStackBeforeCd ==
    (StackCall /\ last_call'.exit_code = 1) =>
        env'.dir_stack = env.dir_stack \/ ReachedCd

C38_StackKeptUnlessCdFails == [][FailureKeepsStackBeforeCd /\ RoundTrip]_vars

\* pushd /a from / and then popd: back in / with the stack empty again
C38_Witness ==
    /\ last_call.op = "popd"
    /\ last_call.exit_code = 0
    /\ last_call.v.cwd = "/a"
    /\ last_call.v.dir_stack = <<"/">>
    /\ cwd = "/"
    /\ env.dir_stack = <<>>

(***************************************************************************)
(* C39: which and the executor agree.  For a name without '/', which of    *)
(* the name exits 0 if and only if executing the name finds something to   *)
(* run: the registry makes it a Builtin, or the resolver resolves it to an *)
(* executable under the same PATH.                                         *)
(***************************************************************************)
WhichCalled == last_call.op = "which" /\ ~contains(run_program, "/")

WhichOfOneName == WhichCalled /\ run_program \notin {OptionAll, OptionSilent}

ExecutorFinds == get_builtin(run_program) \/ resolved.ok

C39_Original == WhichOfOneName => (last_call.exit_code = 0 <=> ExecutorFinds)

\* PATH as the resolver accepts it: unset, a String, a FilePath, or a List of
\* Strings and FilePaths only.
PathWellFormed == path_dirs(get(env, "PATH")).ok

\* What holds: the two agree when the resolver accepts PATH and the name is
\* not "source"; what the executor finds, which finds in every case.
C39_AgreeOnWellFormedPath ==
    WhichOfOneName =>
        /\ ExecutorFinds => last_call.exit_code = 0
        /\ (PathWellFormed /\ run_program # NameSource) =>
               (last_call.exit_code = 0 <=> ExecutorFinds)

\* which l has exited 0 for a PATH list with a number in it, under which the
\* resolver gives up with InvalidPath
C39_Witness ==
    /\ WhichOfOneName
    /\ run_program = NameL
    /\ last_call.exit_code = 0
    /\ ~resolved.ok
    /\ resolved.error = "InvalidPath"

(***************************************************************************)
(* C40: when the file of a Redirect cannot be opened the inner command is  *)
(* not executed, the exit code is 1 and fd 1 of the shell is what it was;  *)
(* when it can be opened, fd 1 of the child is the file, its other         *)
(* descriptors are those it inherited, and the file is open on no other    *)
(* descriptor.                                                             *)
(***************************************************************************)
RedirectCalled == Len(calls') = Len(calls) + 1

ThisCall == calls'[Len(calls')]

ToFile == heap[ThisCall.self].target.t = "FilePath"

OpenFailureRunsNothing ==
    (RedirectCalled /\ ToFile /\ ~ThisCall.open_ok) =>
        /\ ThisCall.inner = <<>>
        /\ ThisCall.exit_code = 1
        /\ ThisCall.shell_fds = FdTable(open_fds)
        /\ open_fds' = open_fds
        /\ disk' = disk

OnlyStdoutReplaced ==
    (RedirectCalled /\ ToFile /\ ThisCall.open_ok) =>
        LET inherited == FdTable(open_fds)
            child == ThisCall.child_fds
        IN  /\ Len(ThisCall.inner) = 1
            /\ child[1] = heap[ThisCall.self].target.path
            /\ DOMAIN child = DOMAIN inherited
            /\ \A fd \in DOMAIN child \ {1} : child[fd] = inherited[fd]
            /\ ThisCall.shell_fds = inherited

C40_RedirectChild == [][OpenFailureRunsNothing /\ OnlyStdoutReplaced]_vars

\* the same Redirect to a path was executed twice: once the file could not
\* be opened (exit code 1, nothing ran, the file as it was), once it could
C40_Witness ==
    /\ Len(calls) = 2
    /\ calls[1].self = calls[2].self
    /\ heap[calls[1].self].target.t = "FilePath"
    /\ ~calls[1].open_ok /\ calls[1].exit_code = 1 /\ calls[1].inner = <<>>
    /\ calls[2].open_ok /\ Len(calls[2].inner) = 1
    /\ calls[2].child_fds[1] = "out"
    /\ calls[2].child_fds[0] = "tty" /\ calls[2].child_fds[2] = "tty"
    /\ disk["out"] = <<"x">>

====
